---- MODULE Spec2Model ----
\* Red-black tree engine of ft::map (src/includes/RBTree.hpp) and the map
\* operations that drive it (src/includes/map.hpp).
\*
\* A tree is a record t of the RBTree members (root, size) and of the node
\* fields, each a function over the node addresses: leftChild, rightChild,
\* parent, color, value.  t.live is the set of addresses the node allocator
\* has handed out and not taken back.  The tree's comparison object is
\* map::value_compare, which reads only the key of a pair, so a node's value
\* is modelled by its key.
\*
\* The statements of a function are chained with With: With(e, LAMBDA x : b)
\* is b with x naming the value of e, so that the tree after one statement is
\* computed once and then read by the next.
EXTENDS Integers, Sequences, FiniteSets, TLC

\* Keys are 1..MaxKey.
MaxKey == 7

\* Keys are 1..MaxPairKey where two maps, or mapped values, are at work.
MaxPairKey == 4

\* Keys are 1..MaxRangeKey where ranges are erased.
MaxRangeKey == 6

\* Keys are 1..MaxDeepKey where the steps of a fix-up are followed.
MaxDeepKey == 8

\* Keys are 1..MaxTallKey where a fix-up is followed over several levels.
MaxTallKey == 10

\* Mapped values are 0..MaxMapped.
MaxMapped == 1

\* The length of the array a reverse iterator goes over.
MaxLen == 10

\* The keys inserted where the tree is emptied and filled again.
MaxEmptyKey == 5

\* The address of the sentinel allocated by make_nil.
Nil == 0

\* The null pointer (the default hint of insert).
NullPtr == -1

\* node->value == NULL : the node carries no payload.
NoValue == 0

RED == "RED"

BLACK == "BLACK"

Keys == 1..MaxKey

\* Addresses of real nodes.  One more than there are keys: insert allocates
\* its node before it looks for an equal key.
RealAddr == 1..((IF MaxKey > MaxTallKey THEN MaxKey ELSE MaxTallKey) + 1)

\* The address make_nil gives the sentinel of a second map.
Nil2 == NullPtr - 1

Addr == {Nil, Nil2} \cup RealAddr

\* root, nil, size: the members of the map's tree.  leftChild .. value: the
\* node fields, by address.  live: the allocated addresses.  other: the
\* members of a second map's tree (its nodes are in the same memory).
\* mapped: the mapped value of each element (the second of its pair).
\* last: the last call; old, oldOther, oldMapped: the two trees and the mapped
\* values before it.  rit: a reverse iterator over an array, and the last call
\* of its operators.
VARIABLES root, nil, size, leftChild, rightChild, parent, color, value, live,
          other, mapped, last, old, oldOther, oldMapped, rit

vars == <<root, nil, size, leftChild, rightChild, parent, color, value, live,
          other, mapped, last, old, oldOther, oldMapped, rit>>

With(e, F(_)) == CHOOSE y \in {F(x) : x \in {e}} : TRUE

\* The tree as one record, the form the operations below work on.
Tree ==
    [root |-> root, nil |-> nil, size |-> size, leftChild |-> leftChild,
     rightChild |-> rightChild, parent |-> parent, color |-> color,
     value |-> value, live |-> live]

SetLeft(t, n, v) == [t EXCEPT !.leftChild[n] = v]

SetRight(t, n, v) == [t EXCEPT !.rightChild[n] = v]

SetParent(t, n, v) == [t EXCEPT !.parent[n] = v]

SetColor(t, n, c) == [t EXCEPT !.color[n] = c]

SetRoot(t, n) == [t EXCEPT !.root = n]

\* value_compare with its arguments taken in the wrong order.
comp_swapped(a, b) == b < a

\* value_compare: the key of the first is less than the key of the second.
comp(a, b) == a < b

\* RBTree(): the sentinel is made by make_nil and is the root.
EmptyTree ==
    [root |-> Nil, nil |-> Nil, size |-> 0,
     leftChild |-> [n \in Addr |-> IF n = Nil THEN Nil ELSE NullPtr],
     rightChild |-> [n \in Addr |-> IF n = Nil THEN Nil ELSE NullPtr],
     parent |-> [n \in Addr |-> IF n = Nil THEN Nil ELSE NullPtr],
     color |-> [n \in Addr |-> BLACK],
     value |-> [n \in Addr |-> NoValue],
     live |-> {Nil}]

\* The allocator's choice of address for a node that will hold key k: the
\* address numbered k (k + MaxPairKey for the map whose sentinel is at Nil2)
\* when it is free, else the lowest free address.
NewAddr(t, k) ==
    With(IF t.nil = Nil2 THEN k + MaxPairKey ELSE k, LAMBDA a0 :
    IF a0 \in RealAddr \ t.live THEN a0
    ELSE CHOOSE a \in RealAddr \ t.live : \A b \in RealAddr \ t.live : a <= b)

make_node(t, a, val) == [t EXCEPT !.live = @ \cup {a}, !.value[a] = val]

\* destroy + deallocate (or delete) of a node: the address is free again and
\* what it held is gone.
release(t, a) ==
    [t EXCEPT !.live = @ \ {a}, !.value[a] = NoValue, !.color[a] = BLACK,
              !.leftChild[a] = NullPtr, !.rightChild[a] = NullPtr,
              !.parent[a] = NullPtr]

get_grandparent(t, node) ==
    IF node # NullPtr /\ t.parent[node] # NullPtr
    THEN t.parent[t.parent[node]]
    ELSE NullPtr

get_uncle(t, node) ==
    With(get_grandparent(t, node), LAMBDA grand :
    IF grand = NullPtr THEN NullPtr
    ELSE IF t.leftChild[grand] = t.parent[node] THEN t.rightChild[grand]
    ELSE t.leftChild[grand])

get_sibling(t, node) ==
    IF node = t.leftChild[t.parent[node]]
    THEN t.rightChild[t.parent[node]]
    ELSE t.leftChild[t.parent[node]]

RECURSIVE rightmost(_, _)
\* while (tmp->rightChild->value != NULL) tmp = tmp->rightChild;
rightmost(t, tmp) ==
    IF t.value[t.rightChild[tmp]] # NoValue
    THEN rightmost(t, t.rightChild[tmp])
    ELSE tmp

RECURSIVE leftmost(_, _)
\* while (tmp->leftChild->value != NULL) tmp = tmp->leftChild;
leftmost(t, tmp) ==
    IF t.value[t.leftChild[tmp]] # NoValue
    THEN leftmost(t, t.leftChild[tmp])
    ELSE tmp

\* get_max_value_node without its loop.
get_max_value_node_root(t) == t.root

get_max_value_node(t) == rightmost(t, t.root)

get_begin(t) == leftmost(t, t.root)

get_end(t) == t.nil

\* rotate_left that leaves the parent link of child's left subtree.
rotate_left_inner_kept(t, node) ==
    With(t.rightChild[node], LAMBDA child :
    With(t.parent[node], LAMBDA par :
    With(SetRight(t, node, t.leftChild[child]), LAMBDA t2 :
    With(SetParent(t2, node, child), LAMBDA t3 :
    With(SetLeft(t3, child, node), LAMBDA t4 :
    With(SetParent(t4, child, par), LAMBDA t5 :
    IF t5.value[par] # NoValue
    THEN IF t5.leftChild[par] = node
         THEN SetLeft(t5, par, child)
         ELSE SetRight(t5, par, child)
    ELSE SetRoot(t5, child)))))))

\* rotate_left that links child from parent without asking whether parent is
\* the sentinel.
rotate_left_parent_unchecked(t, node) ==
    With(t.rightChild[node], LAMBDA child :
    With(t.parent[node], LAMBDA par :
    With(IF t.value[t.leftChild[child]] # NoValue
         THEN SetParent(t, t.leftChild[child], node) ELSE t, LAMBDA t1 :
    With(SetRight(t1, node, t1.leftChild[child]), LAMBDA t2 :
    With(SetParent(t2, node, child), LAMBDA t3 :
    With(SetLeft(t3, child, node), LAMBDA t4 :
    With(SetParent(t4, child, par), LAMBDA t5 :
    With(IF t5.leftChild[par] = node
         THEN SetLeft(t5, par, child)
         ELSE SetRight(t5, par, child), LAMBDA t6 :
    IF t6.value[par] # NoValue THEN t6 ELSE SetRoot(t6, child)))))))))

rotate_left(t, node) ==
    With(t.rightChild[node], LAMBDA child :
    With(t.parent[node], LAMBDA par :
    With(IF t.value[t.leftChild[child]] # NoValue
         THEN SetParent(t, t.leftChild[child], node) ELSE t, LAMBDA t1 :
    With(SetRight(t1, node, t1.leftChild[child]), LAMBDA t2 :
    With(SetParent(t2, node, child), LAMBDA t3 :
    With(SetLeft(t3, child, node), LAMBDA t4 :
    With(SetParent(t4, child, par), LAMBDA t5 :
    IF t5.value[par] # NoValue
    THEN IF t5.leftChild[par] = node
         THEN SetLeft(t5, par, child)
         ELSE SetRight(t5, par, child)
    ELSE SetRoot(t5, child))))))))

rotate_right(t, node) ==
    With(t.leftChild[node], LAMBDA child :
    With(t.parent[node], LAMBDA par :
    With(IF t.value[t.rightChild[child]] # NoValue
         THEN SetParent(t, t.rightChild[child], node) ELSE t, LAMBDA t1 :
    With(SetLeft(t1, node, t1.rightChild[child]), LAMBDA t2 :
    With(SetParent(t2, node, child), LAMBDA t3 :
    With(SetRight(t3, child, node), LAMBDA t4 :
    With(SetParent(t4, child, par), LAMBDA t5 :
    IF t5.value[par] # NoValue
    THEN IF t5.rightChild[par] = node
         THEN SetRight(t5, par, child)
         ELSE SetLeft(t5, par, child)
    ELSE SetRoot(t5, child))))))))

RECURSIVE insert_case1(_, _)

\* insert_case5 without grand->color = RED.
insert_case5_grand_kept(t, node) ==
    With(get_grandparent(t, node), LAMBDA grand :
    With(SetColor(t, t.parent[node], BLACK), LAMBDA t1 :
    IF node = t1.leftChild[t1.parent[node]]
    THEN rotate_right(t1, grand)
    ELSE rotate_left(t1, grand)))

insert_case5(t, node) ==
    With(get_grandparent(t, node), LAMBDA grand :
    With(SetColor(t, t.parent[node], BLACK), LAMBDA t1 :
    With(SetColor(t1, grand, RED), LAMBDA t2 :
    IF node = t2.leftChild[t2.parent[node]]
    THEN rotate_right(t2, grand)
    ELSE rotate_left(t2, grand))))

insert_case4(t, node) ==
    With(get_grandparent(t, node), LAMBDA grand :
    IF node = t.rightChild[t.parent[node]] /\ t.parent[node] = t.leftChild[grand]
    THEN With(rotate_left(t, t.parent[node]), LAMBDA t1 :
         With(t1.leftChild[node], LAMBDA node1 : insert_case5(t1, node1)))
    ELSE IF node = t.leftChild[t.parent[node]] /\ t.parent[node] = t.rightChild[grand]
    THEN With(rotate_right(t, t.parent[node]), LAMBDA t1 :
         With(t1.rightChild[node], LAMBDA node1 : insert_case5(t1, node1)))
    ELSE insert_case5(t, node))

insert_case3(t, node) ==
    With(get_uncle(t, node), LAMBDA uncle :
    IF t.value[uncle] # NoValue /\ t.color[uncle] = RED
    THEN With(SetColor(t, t.parent[node], BLACK), LAMBDA t1 :
         With(SetColor(t1, uncle, BLACK), LAMBDA t2 :
         With(get_grandparent(t2, node), LAMBDA grand :
         With(SetColor(t2, grand, RED), LAMBDA t3 :
         insert_case1(t3, grand)))))
    ELSE insert_case4(t, node))

\* insert_case2 that takes a RED parent for a BLACK one.
insert_case2_no_repair(t, node) == t

insert_case2(t, node) ==
    IF t.color[t.parent[node]] = RED THEN insert_case3(t, node) ELSE t

\* insert_case1 without the recolouring of the root.
insert_case1_root_kept(t, node) ==
    IF t.value[t.parent[node]] # NoValue
    THEN insert_case2(t, node)
    ELSE t

insert_case1(t, node) ==
    IF t.value[t.parent[node]] # NoValue
    THEN insert_case2(t, node)
    ELSE SetColor(t, node, BLACK)

check_hint(t, val, hint) ==
    With(t.value[hint], LAMBDA hv :
    With(t.value[t.root], LAMBDA rv :
    IF comp(hv, rv) /\ comp(val, hv) THEN hint
    ELSE IF comp(hv, rv) /\ comp(hv, val) THEN t.root
    ELSE IF comp(rv, hv) /\ comp(val, hv) THEN t.root
    ELSE IF comp(rv, hv) /\ comp(hv, val) THEN hint
    ELSE t.root))

\* The four fields get_position sets on the node it has linked in.
new_leaf(t, position, node) ==
    SetColor(SetRight(SetLeft(SetParent(t, node, position), node, t.nil), node, t.nil),
             node, RED)

RECURSIVE get_position_equal_right(_, _, _)
\* get_position with a plain else for its second comparison: a key that is
\* not less goes to the right.
get_position_equal_right(t, position, node) ==
    IF t.value[position] = NoValue
    THEN [t |-> t, first |-> position, second |-> TRUE]
    ELSE IF comp(t.value[node], t.value[position])
    THEN IF t.value[t.leftChild[position]] = NoValue
         THEN [t |-> new_leaf(SetLeft(t, position, node), position, node),
               first |-> position, second |-> TRUE]
         ELSE With(t.leftChild[position],
                   LAMBDA next : get_position_equal_right(t, next, node))
    ELSE IF t.value[t.rightChild[position]] = NoValue
         THEN [t |-> new_leaf(SetRight(t, position, node), position, node),
               first |-> position, second |-> TRUE]
         ELSE With(t.rightChild[position],
                   LAMBDA next : get_position_equal_right(t, next, node))

RECURSIVE get_position(_, _, _)
\* The loop of get_position from position: the pair it returns (first,
\* second) and the tree, with the node linked in when a place was found.
get_position(t, position, node) ==
    IF t.value[position] = NoValue
    THEN [t |-> t, first |-> position, second |-> TRUE]
    ELSE IF comp(t.value[node], t.value[position])
    THEN IF t.value[t.leftChild[position]] = NoValue
         THEN [t |-> new_leaf(SetLeft(t, position, node), position, node),
               first |-> position, second |-> TRUE]
         ELSE With(t.leftChild[position], LAMBDA next : get_position(t, next, node))
    ELSE IF comp(t.value[position], t.value[node])
    THEN IF t.value[t.rightChild[position]] = NoValue
         THEN [t |-> new_leaf(SetRight(t, position, node), position, node),
               first |-> position, second |-> TRUE]
         ELSE With(t.rightChild[position], LAMBDA next : get_position(t, next, node))
    ELSE [t |-> t, first |-> position, second |-> FALSE]

\* insert_root without _nil->parent = _root.
insert_root_nil_kept(t, new_node) ==
    With(SetRoot(t, new_node), LAMBDA t1 :
    With(SetLeft(t1, t1.root, t1.nil), LAMBDA t2 :
    With(SetRight(t2, t2.root, t2.nil), LAMBDA t3 :
    With(SetParent(t3, t3.root, t3.nil), LAMBDA t4 :
    With(SetColor(t4, t4.root, BLACK), LAMBDA t5 :
    [t |-> [t5 EXCEPT !.size = @ + 1], first |-> t5.root, second |-> TRUE])))))

\* The branch of insert taken when the tree is empty.
insert_root(t, new_node) ==
    With(SetRoot(t, new_node), LAMBDA t1 :
    With(SetLeft(t1, t1.root, t1.nil), LAMBDA t2 :
    With(SetRight(t2, t2.root, t2.nil), LAMBDA t3 :
    With(SetParent(t3, t3.root, t3.nil), LAMBDA t4 :
    With(SetColor(t4, t4.root, BLACK), LAMBDA t5 :
    With(SetParent(t5, t5.nil, t5.root), LAMBDA t6 :
    [t |-> [t6 EXCEPT !.size = @ + 1], first |-> t6.root, second |-> TRUE]))))))

\* insert_fixup without _size++.
insert_fixup_size_kept(t, new_node) ==
    With(insert_case1(t, new_node), LAMBDA t1 :
    [t |-> SetParent(t1, t1.nil, get_max_value_node(t1)),
     first |-> new_node, second |-> TRUE])

\* The end of insert, once get_position has linked the node in.
insert_fixup(t, new_node) ==
    With(insert_case1(t, new_node), LAMBDA t1 :
    With([t1 EXCEPT !.size = @ + 1], LAMBDA t2 :
    [t |-> SetParent(t2, t2.nil, get_max_value_node(t2)),
     first |-> new_node, second |-> TRUE]))

\* insert that counts the node before it knows whether the key is new.
insert_counts_first(t, val, hint) ==
    With(NewAddr(t, val), LAMBDA new_node :
    With(make_node(t, new_node, val), LAMBDA t0 :
    IF t0.size = 0
    THEN insert_root(t0, new_node)
    ELSE With(IF hint # NullPtr /\ t0.value[hint] # NoValue
              THEN check_hint(t0, val, hint)
              ELSE t0.root, LAMBDA position :
         With(get_position([t0 EXCEPT !.size = @ + 1], position, new_node), LAMBDA is_valid :
         IF is_valid.second = FALSE
         THEN [t |-> release(is_valid.t, new_node),
               first |-> is_valid.first, second |-> FALSE]
         ELSE With(insert_case1(is_valid.t, new_node), LAMBDA t1 :
              [t |-> SetParent(t1, t1.nil, get_max_value_node(t1)),
               first |-> new_node, second |-> TRUE])))))

\* RBTree::insert(val, hint): the tree afterwards and the returned pair.
insert(t, val, hint) ==
    With(NewAddr(t, val), LAMBDA new_node :
    With(make_node(t, new_node, val), LAMBDA t0 :
    IF t0.size = 0
    THEN insert_root(t0, new_node)
    ELSE With(IF hint # NullPtr /\ t0.value[hint] # NoValue
              THEN check_hint(t0, val, hint)
              ELSE t0.root, LAMBDA position :
         With(get_position(t0, position, new_node), LAMBDA is_valid :
         IF is_valid.second = FALSE
         THEN [t |-> release(is_valid.t, new_node),
               first |-> is_valid.first, second |-> FALSE]
         ELSE insert_fixup(is_valid.t, new_node)))))

\* The exchange of node with res, the maximum of its left subtree or, with no
\* left subtree, the minimum of its right subtree (the part of
\* replace_erase_node after res is found).
\* The exchange done on the payloads instead of the links.
exchange_nodes_by_value(t, node, res) ==
    [t EXCEPT !.value[node] = t.value[res], !.value[res] = t.value[node]]

exchange_nodes(t, node, res) ==
    With(t.parent[node], LAMBDA tmp_parent :
    With(t.leftChild[node], LAMBDA tmp_left :
    With(t.rightChild[node], LAMBDA tmp_right :
    With(t.color[node], LAMBDA tmp_color :
    With(SetLeft(t, node, t.leftChild[res]), LAMBDA a1 :
    With(IF a1.value[a1.leftChild[res]] # NoValue
         THEN SetParent(a1, a1.leftChild[res], node) ELSE a1, LAMBDA a2 :
    With(SetRight(a2, node, a2.rightChild[res]), LAMBDA a3 :
    With(IF a3.value[a3.rightChild[res]] # NoValue
         THEN SetParent(a3, a3.rightChild[res], node) ELSE a3, LAMBDA a4 :
    With(IF a4.leftChild[tmp_parent] = node
         THEN SetLeft(a4, tmp_parent, res)
         ELSE IF a4.rightChild[tmp_parent] = node
         THEN SetRight(a4, tmp_parent, res)
         ELSE a4, LAMBDA a5 :
    With(IF res = tmp_left
         THEN With(SetParent(a5, tmp_right, res), LAMBDA b1 :
              With(SetRight(b1, res, tmp_right), LAMBDA b2 :
              With(SetParent(b2, node, res), LAMBDA b3 :
              SetLeft(b3, res, node))))
         ELSE IF res = tmp_right
         THEN With(SetParent(a5, tmp_left, res), LAMBDA b1 :
              With(SetLeft(b1, res, tmp_left), LAMBDA b2 :
              With(SetParent(b2, node, res), LAMBDA b3 :
              SetRight(b3, res, node))))
         ELSE With(SetParent(a5, tmp_left, res), LAMBDA b1 :
              With(SetLeft(b1, res, tmp_left), LAMBDA b2 :
              With(SetParent(b2, tmp_right, res), LAMBDA b3 :
              With(SetRight(b3, res, tmp_right), LAMBDA b4 :
              With(SetParent(b4, node, b4.parent[res]), LAMBDA b5 :
              SetRight(b5, b5.parent[res], node)))))), LAMBDA a6 :
    With(SetParent(a6, res, tmp_parent), LAMBDA a7 :
    With(IF a7.value[a7.parent[res]] = NoValue
         THEN SetRoot(a7, res) ELSE a7, LAMBDA a8 :
    With(SetColor(a8, node, a8.color[res]), LAMBDA a9 :
    SetColor(a9, res, tmp_color))))))))))))))

\* replace_erase_node that looks for res in the right subtree first.
replace_erase_node_right_first(t, node) ==
    IF t.value[t.rightChild[node]] # NoValue
    THEN With(leftmost(t, t.rightChild[node]), LAMBDA res : exchange_nodes(t, node, res))
    ELSE IF t.value[t.leftChild[node]] # NoValue
    THEN With(rightmost(t, t.leftChild[node]), LAMBDA res : exchange_nodes(t, node, res))
    ELSE t

\* replace_erase_node returns node on every path; this is the tree it leaves.
replace_erase_node(t, node) ==
    IF t.value[t.leftChild[node]] # NoValue
    THEN With(rightmost(t, t.leftChild[node]), LAMBDA res : exchange_nodes(t, node, res))
    ELSE IF t.value[t.rightChild[node]] # NoValue
    THEN With(leftmost(t, t.rightChild[node]), LAMBDA res : exchange_nodes(t, node, res))
    ELSE t

\* replace_node without child->parent = node->parent.
replace_node_parent_kept(t, node, child) ==
    IF t.leftChild[t.parent[node]] = node
    THEN SetLeft(t, t.parent[node], child)
    ELSE SetRight(t, t.parent[node], child)

replace_node(t, node, child) ==
    With(SetParent(t, child, t.parent[node]), LAMBDA t1 :
    IF t1.leftChild[t1.parent[node]] = node
    THEN SetLeft(t1, t1.parent[node], child)
    ELSE SetRight(t1, t1.parent[node], child))

RECURSIVE delete_case1(_, _)

delete_case6(t, node) ==
    With(get_sibling(t, node), LAMBDA sibling :
    With(SetColor(t, sibling, t.color[t.parent[node]]), LAMBDA t1 :
    With(SetColor(t1, t1.parent[node], BLACK), LAMBDA t2 :
    IF node = t2.leftChild[t2.parent[node]]
    THEN With(SetColor(t2, t2.rightChild[sibling], BLACK), LAMBDA t3 :
         rotate_left(t3, t3.parent[node]))
    ELSE With(SetColor(t2, t2.leftChild[sibling], BLACK), LAMBDA t3 :
         rotate_right(t3, t3.parent[node])))))

delete_case5(t, node) ==
    With(get_sibling(t, node), LAMBDA sibling :
    IF t.color[sibling] = BLACK
    THEN IF /\ node = t.leftChild[t.parent[node]]
            /\ t.color[t.rightChild[sibling]] = BLACK
            /\ t.color[t.leftChild[sibling]] = RED
         THEN With(SetColor(t, sibling, RED), LAMBDA t1 :
              With(SetColor(t1, t1.leftChild[sibling], BLACK), LAMBDA t2 :
              With(rotate_right(t2, sibling), LAMBDA t3 :
              delete_case6(t3, node))))
         ELSE IF /\ node = t.rightChild[t.parent[node]]
                 /\ t.color[t.leftChild[sibling]] = BLACK
                 /\ t.color[t.rightChild[sibling]] = RED
         THEN With(SetColor(t, sibling, RED), LAMBDA t1 :
              With(SetColor(t1, t1.rightChild[sibling], BLACK), LAMBDA t2 :
              With(rotate_left(t2, sibling), LAMBDA t3 :
              delete_case6(t3, node))))
         ELSE delete_case6(t, node)
    ELSE delete_case6(t, node))

delete_case4(t, node) ==
    With(get_sibling(t, node), LAMBDA sibling :
    IF /\ t.color[t.parent[node]] = RED
       /\ t.color[sibling] = BLACK
       /\ t.color[t.leftChild[sibling]] = BLACK
       /\ t.color[t.rightChild[sibling]] = BLACK
    THEN With(SetColor(t, sibling, RED), LAMBDA t1 :
         SetColor(t1, t1.parent[node], BLACK))
    ELSE delete_case5(t, node))

delete_case3(t, node) ==
    With(get_sibling(t, node), LAMBDA sibling :
    IF /\ t.color[t.parent[node]] = BLACK
       /\ t.color[sibling] = BLACK
       /\ t.color[t.leftChild[sibling]] = BLACK
       /\ t.color[t.rightChild[sibling]] = BLACK
    THEN With(SetColor(t, sibling, RED), LAMBDA t1 :
         With(t1.parent[node], LAMBDA up : delete_case1(t1, up)))
    ELSE delete_case4(t, node))

delete_case2(t, node) ==
    With(get_sibling(t, node), LAMBDA sibling :
    IF t.color[sibling] = RED
    THEN With(SetColor(t, t.parent[node], RED), LAMBDA t1 :
         With(SetColor(t1, sibling, BLACK), LAMBDA t2 :
         With(IF node = t2.leftChild[t2.parent[node]]
              THEN rotate_left(t2, t2.parent[node])
              ELSE rotate_right(t2, t2.parent[node]), LAMBDA t3 :
         delete_case3(t3, node))))
    ELSE delete_case3(t, node))

delete_case1(t, node) ==
    IF t.value[t.parent[node]] # NoValue THEN delete_case2(t, node) ELSE t

\* The rebalancing step of erase, after replace_node has put child in the
\* place of target.
erase_rebalance(t, target, child) ==
    IF t.color[target] = BLACK
    THEN IF t.color[child] = RED
         THEN SetColor(t, child, BLACK)
         ELSE delete_case1(t, child)
    ELSE t

\* erase_finish without _size--.
erase_finish_size_kept(t, target) ==
    With(IF t.value[t.parent[target]] = NoValue
         THEN SetRoot(t, t.nil) ELSE t, LAMBDA t2 :
    With(release(t2, target), LAMBDA t3 :
    SetParent(t3, t3.nil, get_max_value_node(t3))))

\* The end of erase: the count, the root of a tree left empty, the release of
\* target and the sentinel's parent.
erase_finish(t, target) ==
    With([t EXCEPT !.size = @ - 1], LAMBDA t1 :
    With(IF t1.value[t1.parent[target]] = NoValue
         THEN SetRoot(t1, t1.nil) ELSE t1, LAMBDA t2 :
    With(release(t2, target), LAMBDA t3 :
    SetParent(t3, t3.nil, get_max_value_node(t3)))))

\* erase with _size-- ahead of the test for the sentinel.
erase_counts_first(t, node) ==
    IF t.value[node] = NoValue
    THEN [t |-> [t EXCEPT !.size = @ - 1], count |-> 0]
    ELSE With(replace_erase_node(t, node), LAMBDA t1 :
         With(node, LAMBDA target :
         With(IF t1.value[t1.rightChild[target]] = NoValue
              THEN t1.leftChild[target]
              ELSE t1.rightChild[target], LAMBDA child :
         With(replace_node(t1, target, child), LAMBDA t2 :
         With(erase_rebalance(t2, target, child), LAMBDA t3 :
         [t |-> erase_finish(t3, target), count |-> 1])))))

\* RBTree::erase(node): the tree afterwards and the returned count.
erase(t, node) ==
    IF t.value[node] = NoValue
    THEN [t |-> t, count |-> 0]
    ELSE With(replace_erase_node(t, node), LAMBDA t1 :
         With(node, LAMBDA target :
         With(IF t1.value[t1.rightChild[target]] = NoValue
              THEN t1.leftChild[target]
              ELSE t1.rightChild[target], LAMBDA child :
         With(replace_node(t1, target, child), LAMBDA t2 :
         With(erase_rebalance(t2, target, child), LAMBDA t3 :
         [t |-> erase_finish(t3, target), count |-> 1])))))

\* RBTree::find: descend[res] is the loop started at node res.
\* find that descends to the other side.
find_other_side(t, val) ==
    LET descend[res \in Addr] ==
            IF t.value[res] # NoValue /\ (comp(val, t.value[res]) \/ comp(t.value[res], val))
            THEN IF comp(val, t.value[res])
                 THEN descend[t.rightChild[res]]
                 ELSE descend[t.leftChild[res]]
            ELSE res
    IN  IF t.size = 0 THEN t.nil ELSE descend[t.root]

find(t, val) ==
    LET descend[res \in Addr] ==
            IF t.value[res] # NoValue /\ (comp(val, t.value[res]) \/ comp(t.value[res], val))
            THEN IF comp(val, t.value[res])
                 THEN descend[t.leftChild[res]]
                 ELSE descend[t.rightChild[res]]
            ELSE res
    IN  IF t.size = 0 THEN t.nil ELSE descend[t.root]

\* The real nodes linked below the root, found by following child links
\* (k rounds from the set S).
RECURSIVE Below(_, _, _)
Below(t, S, k) ==
    IF k = 0 THEN S
    ELSE With(S \cup {c \in {t.leftChild[n] : n \in S} \cup {t.rightChild[n] : n \in S} :
                        c \in Addr /\ t.value[c] # NoValue},
              LAMBDA S1 : IF S1 = S THEN S ELSE Below(t, S1, k - 1))

RealNodes(t) ==
    IF t.value[t.root] = NoValue THEN {} ELSE Below(t, {t.root}, MaxKey + 1)

\* The nodes of the subtree at n in in-order: left subtree, n, right subtree
\* (to depth k).
RECURSIVE InOrder(_, _, _)
InOrder(t, n, k) ==
    IF k = 0 \/ n \notin Addr \/ t.value[n] = NoValue THEN <<>>
    ELSE InOrder(t, t.leftChild[n], k - 1) \o <<n>> \o InOrder(t, t.rightChild[n], k - 1)

\* The keys of the tree in in-order.
InOrderKeys(t) ==
    With(InOrder(t, t.root, MaxKey + 2), LAMBDA s : [i \in 1..Len(s) |-> t.value[s[i]]])

StrictlyIncreasing(s) == \A i \in 1..(Len(s) - 1) : s[i] < s[i + 1]

\* The keys held by the nodes of the tree.
KeySet(t) == {t.value[n] : n \in RealNodes(t)}

\* The numbers of BLACK nodes met on the ways down from n, n left out, to the
\* sentinel (to depth k; a way longer than k counts as two different numbers).
RECURSIVE BlackCounts(_, _, _)
BlackCounts(t, n, k) ==
    IF n \notin Addr \/ k = 0 THEN {-1, -2}
    ELSE IF t.value[n] = NoValue THEN {0}
    ELSE UNION {{c + (IF t.color[ch] = BLACK THEN 1 ELSE 0) :
                    c \in BlackCounts(t, ch, k - 1)} :
                ch \in {t.leftChild[n], t.rightChild[n]}}

\* The nodes of the subtree at n.
SubtreeNodes(t, n) ==
    With(InOrder(t, n, MaxKey + 2), LAMBDA s : {s[i] : i \in 1..Len(s)})

\* No reverse iterator has been constructed.  The calls on one add to op, the
\* last call: r, the iterator; n, the integer given; member, nonmember, what
\* r + n and n + r gave; at, star, what r[n] and *(r + n) gave.
NoIterator == [op |-> "none"]

\* What the last call was, what it was given and what it returned.
NoCall ==
    [op |-> "none", val |-> NoValue, hint |-> NullPtr, node |-> NullPtr,
     first |-> NullPtr, second |-> FALSE, count |-> 0,
     upto |-> NullPtr, valid |-> TRUE]

Commit(t) ==
    /\ root' = t.root
    /\ nil' = t.nil
    /\ size' = t.size
    /\ leftChild' = t.leftChild
    /\ rightChild' = t.rightChild
    /\ parent' = t.parent
    /\ color' = t.color
    /\ value' = t.value
    /\ live' = t.live

\* mapped_type(): the mapped value of a pair made from a key alone.
DefaultMapped == 0

\* The mapped values m once the tree is t: what a released node held is gone.
Stored(m, t) == [n \in Addr |-> IF n \in t.live THEN m[n] ELSE DefaultMapped]

\* No second map has been constructed.
NoMap == [root |-> NullPtr, nil |-> NullPtr, size |-> 0]

Init ==
    /\ root = EmptyTree.root
    /\ nil = EmptyTree.nil
    /\ other = NoMap
    /\ oldOther = NoMap
    /\ mapped = [n \in Addr |-> DefaultMapped]
    /\ size = EmptyTree.size
    /\ leftChild = EmptyTree.leftChild
    /\ rightChild = EmptyTree.rightChild
    /\ parent = EmptyTree.parent
    /\ color = EmptyTree.color
    /\ value = EmptyTree.value
    /\ live = EmptyTree.live
    /\ last = NoCall
    /\ old = EmptyTree
    /\ oldMapped = mapped
    /\ rit = NoIterator

\* map::insert(val)
Insert(val) ==
    /\ RealAddr \ live # {}
    /\ \E t \in {Tree} : \E r \in {insert(t, val, NullPtr)} :
          /\ Commit(r.t)
          /\ last' = [NoCall EXCEPT !.op = "insert", !.val = val,
                                    !.first = r.first, !.second = r.second]
          /\ old' = t
          /\ oldMapped' = mapped
          /\ rit' = rit
          /\ other' = other /\ oldOther' = other
          /\ mapped' = Stored([mapped EXCEPT ![r.first] =
                                   IF r.second THEN DefaultMapped ELSE @], r.t)

\* map::erase(position), position an iterator at an element of the map
Erase(position) ==
    \E t \in {Tree} :
       /\ position \in RealNodes(t)
       /\ \E r \in {erase(t, position)} :
             /\ Commit(r.t)
             /\ last' = [NoCall EXCEPT !.op = "erase", !.node = position,
                                       !.count = r.count]
             /\ old' = t
             /\ oldMapped' = mapped
             /\ rit' = rit
             /\ other' = other /\ oldOther' = other
             /\ mapped' = Stored(mapped, r.t)

\* map::erase(k): erase(find(k))
EraseKey(k) ==
    \E t \in {Tree} : \E node \in {find(t, k)} : \E r \in {erase(t, node)} :
       /\ Commit(r.t)
       /\ last' = [NoCall EXCEPT !.op = "erase", !.val = k, !.node = node,
                                 !.count = r.count]
       /\ old' = t
       /\ oldMapped' = mapped
       /\ rit' = rit
       /\ other' = other /\ oldOther' = other
       /\ mapped' = Stored(mapped, r.t)

Next ==
    \/ \E val \in Keys : Insert(val)
    \/ \E position \in RealAddr : Erase(position)
    \/ \E k \in Keys : EraseKey(k)

Spec == Init /\ [][Next]_vars

\* map::insert(position, val): position an iterator at an element, or end()
InsertHint(position, val) ==
    /\ RealAddr \ live # {}
    /\ \E t \in {Tree} :
          /\ position \in RealNodes(t) \cup {get_end(t)}
          /\ \E r \in {insert(t, val, position)} :
                /\ Commit(r.t)
                /\ last' = [NoCall EXCEPT !.op = "insert", !.val = val,
                                          !.hint = position,
                                          !.first = r.first, !.second = r.second]
                /\ old' = t
                /\ oldMapped' = mapped
                /\ rit' = rit
                /\ other' = other /\ oldOther' = other
                /\ mapped' = Stored([mapped EXCEPT ![r.first] =
                                         IF r.second THEN DefaultMapped ELSE @], r.t)

\* The calls of Next and the insert with a hint.  A run is followed up to the
\* first call that leaves the keys out of order.
NextHint ==
    /\ StrictlyIncreasing(InOrderKeys(Tree))
    /\ \/ Next
       \/ \E position \in Addr, val \in Keys : InsertHint(position, val)

SpecHint == Init /\ [][NextHint]_vars

\* ------------------------------------------------------------------------
\* Properties of the tree after each completed call.

\* C1: after any sequence of insert(value) and erase(node) calls, for every
\* real node all ways down from that node to the sentinel hold the same number
\* of BLACK nodes (the node itself left out).
C1_BlackHeight ==
    \A n \in RealNodes(Tree) : Cardinality(BlackCounts(Tree, n, MaxKey + 2)) = 1

\* An erase has removed a node and left a tree with BLACK nodes below the root.
C1_Witness ==
    /\ last.op = "erase" /\ last.count = 1
    /\ size >= 4
    /\ BlackCounts(Tree, root, MaxKey + 2) = {2}

\* C2: after any sequence of insert(value) and erase(node) calls no RED node
\* has a RED child.
C2_NoRedRed ==
    \A n \in RealNodes(Tree) :
       color[n] = RED => color[leftChild[n]] = BLACK /\ color[rightChild[n]] = BLACK

\* An erase has left a RED node with two real children.
C2_Witness ==
    /\ last.op = "erase" /\ last.count = 1
    /\ \E n \in RealNodes(Tree) :
          /\ color[n] = RED
          /\ value[leftChild[n]] # NoValue
          /\ value[rightChild[n]] # NoValue

\* C3: after any sequence of insert(value) and erase(node) calls the root of a
\* non-empty tree is a real BLACK node whose parent link is the sentinel.
C3_RootBlack ==
    size > 0 => value[root] # NoValue /\ color[root] = BLACK /\ parent[root] = Nil

\* An erase of a node other than the root has put another node at the root.
C3_Witness ==
    /\ last.op = "erase" /\ last.count = 1
    /\ size > 0
    /\ root # old.root
    /\ old.root # last.node

\* C4: after any sequence of insert(value) and erase(node) calls the in-order
\* traversal, which starts at begin(), yields strictly increasing keys; no two
\* nodes hold equal keys, the keys of a node's left subtree are smaller than
\* its key and those of its right subtree larger.
C4_Ordered ==
    /\ StrictlyIncreasing(InOrderKeys(Tree))
    /\ Len(InOrderKeys(Tree)) = size
    /\ size > 0 => get_begin(Tree) = InOrder(Tree, root, MaxKey + 2)[1]
    /\ \A n \in RealNodes(Tree) :
          /\ \A m \in SubtreeNodes(Tree, leftChild[n]) : value[m] < value[n]
          /\ \A m \in SubtreeNodes(Tree, rightChild[n]) : value[n] < value[m]
          /\ \A m \in RealNodes(Tree) : value[m] = value[n] => m = n

\* An erase has removed a node that had two real children, from a tree with
\* more nodes below them.
C4_Witness ==
    /\ last.op = "erase" /\ last.count = 1
    /\ old.value[old.leftChild[last.node]] # NoValue
    /\ old.value[old.rightChild[last.node]] # NoValue
    /\ size >= 5

RECURSIVE clear_root_kept(_, _)
\* clear that leaves _root as it is.
clear_root_kept(t, start) ==
    With(IF start = NullPtr THEN t.root ELSE start, LAMBDA node :
    With(IF t.value[t.leftChild[node]] # NoValue
         THEN With(clear_root_kept(t, t.leftChild[node]), LAMBDA c : SetLeft(c, node, c.nil))
         ELSE t, LAMBDA t1 :
    With(IF t1.value[t1.rightChild[node]] # NoValue
         THEN With(clear_root_kept(t1, t1.rightChild[node]), LAMBDA c : SetRight(c, node, c.nil))
         ELSE t1, LAMBDA t2 :
    IF t2.value[node] # NoValue
    THEN With(release(t2, node), LAMBDA t4 :
         [t4 EXCEPT !.size = @ - 1])
    ELSE t2)))

RECURSIVE clear_size_kept(_, _)
\* clear without _size--.
clear_size_kept(t, start) ==
    With(IF start = NullPtr THEN t.root ELSE start, LAMBDA node :
    With(IF t.value[t.leftChild[node]] # NoValue
         THEN With(clear_size_kept(t, t.leftChild[node]), LAMBDA c : SetLeft(c, node, c.nil))
         ELSE t, LAMBDA t1 :
    With(IF t1.value[t1.rightChild[node]] # NoValue
         THEN With(clear_size_kept(t1, t1.rightChild[node]), LAMBDA c : SetRight(c, node, c.nil))
         ELSE t1, LAMBDA t2 :
    IF t2.value[node] # NoValue
    THEN With(IF node = t2.root THEN SetRoot(t2, t2.nil) ELSE t2, LAMBDA t3 :
         release(t3, node))
    ELSE t2)))

\* RBTree::clear(node): the subtree at node destroyed bottom-up; clear()
\* starts at the root.
RECURSIVE clear(_, _)
clear(t, start) ==
    With(IF start = NullPtr THEN t.root ELSE start, LAMBDA node :
    With(IF t.value[t.leftChild[node]] # NoValue
         THEN With(clear(t, t.leftChild[node]), LAMBDA c : SetLeft(c, node, c.nil))
         ELSE t, LAMBDA t1 :
    With(IF t1.value[t1.rightChild[node]] # NoValue
         THEN With(clear(t1, t1.rightChild[node]), LAMBDA c : SetRight(c, node, c.nil))
         ELSE t1, LAMBDA t2 :
    IF t2.value[node] # NoValue
    THEN With(IF node = t2.root THEN SetRoot(t2, t2.nil) ELSE t2, LAMBDA t3 :
         With(release(t3, node), LAMBDA t4 :
         [t4 EXCEPT !.size = @ - 1]))
    ELSE t2)))

\* map::clear()
Clear ==
    \E t \in {Tree} :
       \E c \in {clear(t, NullPtr)} :
          /\ Commit(c)
          /\ last' = [NoCall EXCEPT !.op = "clear"]
          /\ old' = t
          /\ oldMapped' = mapped
          /\ rit' = rit
          /\ other' = other /\ oldOther' = other
          /\ mapped' = Stored(mapped, c)

NextClear ==
    \/ Next
    \/ Clear

SpecClear == Init /\ [][NextClear]_vars

\* The ordered iterator's ++: the leftmost node of the right subtree, or else
\* the first ancestor reached over a left-child edge, or else the sentinel.
RECURSIVE ascend_from_right(_, _)
ascend_from_right(t, n) ==
    With(t.parent[n], LAMBDA p :
    IF t.value[p] = NoValue THEN p
    ELSE IF t.leftChild[p] = n THEN p
    ELSE ascend_from_right(t, p))

advance(t, p) ==
    IF t.value[t.rightChild[p]] # NoValue
    THEN leftmost(t, t.rightChild[p])
    ELSE ascend_from_right(t, p)

\* The ordered iterator's --: from end() the node the sentinel's parent link
\* caches; else the rightmost node of the left subtree, or else the first
\* ancestor reached over a right-child edge.
RECURSIVE ascend_from_left(_, _)
ascend_from_left(t, n) ==
    With(t.parent[n], LAMBDA p :
    IF t.value[p] = NoValue THEN p
    ELSE IF t.rightChild[p] = n THEN p
    ELSE ascend_from_left(t, p))

retreat(t, p) ==
    IF t.value[p] = NoValue THEN t.parent[p]
    ELSE IF t.value[t.leftChild[p]] # NoValue
    THEN rightmost(t, t.leftChild[p])
    ELSE ascend_from_left(t, p)

\* lower_bound with the loop test of upper_bound.
lower_bound_past_equal(t, val) ==
    LET scan[it \in Addr] ==
            IF it # get_end(t) /\ ~comp(val, t.value[it])
            THEN scan[advance(t, it)]
            ELSE it
    IN  scan[get_begin(t)]

\* RBTree::lower_bound(val)
lower_bound(t, val) ==
    LET scan[it \in Addr] ==
            IF it # get_end(t) /\ comp(t.value[it], val)
            THEN scan[advance(t, it)]
            ELSE it
    IN  scan[get_begin(t)]

\* upper_bound with the loop test of lower_bound.
upper_bound_at_equal(t, val) ==
    LET scan[it \in Addr] ==
            IF it # get_end(t) /\ comp(t.value[it], val)
            THEN scan[advance(t, it)]
            ELSE it
    IN  scan[get_begin(t)]

\* RBTree::upper_bound(val)
upper_bound(t, val) ==
    LET scan[it \in Addr] ==
            IF it # get_end(t) /\ ~comp(val, t.value[it])
            THEN scan[advance(t, it)]
            ELSE it
    IN  scan[get_begin(t)]

\* map::rbegin(), map::rend(): a reverse_iterator is its base iterator current.
rbegin(t) == get_end(t)

rend(t) == get_begin(t)

\* operator* that reads the element at current.
reverse_deref_current(t, current) == current

\* reverse_iterator::operator*: the element before current.
reverse_deref(t, current) == retreat(t, current)

\* reverse_iterator::operator++: current moved back by one.
reverse_next(t, current) == retreat(t, current)

\* The nodes met by for (r = rbegin(); r != rend(); ++r) *r  (k steps at most).
RECURSIVE ReverseOrder(_, _, _)
ReverseOrder(t, current, k) ==
    IF current = rend(t) \/ k = 0 \/ current \notin Addr THEN <<>>
    ELSE <<reverse_deref(t, current)>> \o ReverseOrder(t, reverse_next(t, current), k - 1)

\* ------------------------------------------------------------------------
\* Properties of one call: last is the call, old the tree it was made on.

\* C5: for every real node passed as hint and every value whose key is
\* absent, insert(value, hint) leaves the same key set and the same strictly
\* increasing in-order sequence as insert(value) without a hint, and
\* find(key) locates the new node.
C5_HintInsertAbsent ==
    (/\ last.op = "insert"
     /\ last.hint \in RealNodes(old)
     /\ last.val \notin KeySet(old))
    => With(insert(old, last.val, NullPtr), LAMBDA r :
         /\ last.second
         /\ value[last.first] = last.val
         /\ KeySet(Tree) = KeySet(r.t)
         /\ InOrderKeys(Tree) = InOrderKeys(r.t)
         /\ StrictlyIncreasing(InOrderKeys(Tree))
         /\ find(Tree, last.val) = last.first)

\* C6: for every real node passed as hint, insert(value, hint) with a key
\* that is already in the tree creates no element: size() is unchanged, the
\* flag is false, the returned node is the element that held the key, and
\* keys stay unique.
C6_HintInsertPresent ==
    (/\ last.op = "insert"
     /\ last.hint \in RealNodes(old)
     /\ last.val \in KeySet(old))
    => /\ size = old.size
       /\ last.second = FALSE
       /\ last.first \in RealNodes(old)
       /\ old.value[last.first] = last.val
       /\ \A m, n \in RealNodes(Tree) : value[m] = value[n] => m = n

\* C7: insert(value) with a key equal to one in the tree returns the node
\* that holds it with flag false, and changes nothing: root, size, every
\* node's links, color and value, the sentinel's links, the allocated nodes.
C7_DuplicateInsert ==
    (/\ last.op = "insert"
     /\ last.hint = NullPtr
     /\ last.val \in KeySet(old))
    => /\ last.second = FALSE
       /\ last.first \in RealNodes(old)
       /\ old.value[last.first] = last.val
       /\ Tree = old

\* An insert of a key held below the root of a tree of five nodes or more.
C7_Witness ==
    /\ last.op = "insert" /\ last.hint = NullPtr
    /\ last.val \in KeySet(old)
    /\ last.val # old.value[old.root]
    /\ old.size >= 5

\* C8: insert(value) with a key not in the tree returns (node, true), node a
\* newly created node that holds the key; the key set is the old one plus the
\* key and size() has grown by 1.
C8_NewInsert ==
    (/\ last.op = "insert"
     /\ last.hint = NullPtr
     /\ last.val \notin KeySet(old))
    => /\ last.second = TRUE
       /\ last.first \notin old.live
       /\ last.first \in RealNodes(Tree)
       /\ value[last.first] = last.val
       /\ KeySet(Tree) = KeySet(old) \cup {last.val}
       /\ RealNodes(Tree) = RealNodes(old) \cup {last.first}
       /\ size = old.size + 1

\* An insert of a new key into a tree of four nodes or more whose repair
\* rotated: a node of the old tree has another parent.
C8_Witness ==
    /\ last.op = "insert" /\ last.hint = NullPtr
    /\ last.val \notin KeySet(old)
    /\ old.size >= 4
    /\ \E n \in RealNodes(old) : parent[n] # old.parent[n]

\* C9: erase(node) on a real node of the tree returns 1 and removes that node
\* and no other: the key set is the old one minus the node's key, size() has
\* shrunk by 1 and every other key is still found by find.
C9_EraseReal ==
    (/\ last.op = "erase"
     /\ last.node \in RealNodes(old))
    => /\ last.count = 1
       /\ RealNodes(Tree) = RealNodes(old) \ {last.node}
       /\ KeySet(Tree) = KeySet(old) \ {old.value[last.node]}
       /\ size = old.size - 1
       /\ \A k \in KeySet(old) \ {old.value[last.node]} :
             /\ find(Tree, k) \in RealNodes(Tree)
             /\ value[find(Tree, k)] = k
       /\ find(Tree, old.value[last.node]) = Nil

\* An erase of the root of a tree of seven nodes, the root having two real
\* children (the scenario of the tree built from seven keys).
C9_Witness ==
    /\ last.op = "erase"
    /\ last.node = old.root
    /\ old.size = 7
    /\ old.value[old.leftChild[last.node]] # NoValue
    /\ old.value[old.rightChild[last.node]] # NoValue

\* C10: erase applied to the sentinel (what find returns for an absent key)
\* returns 0 and leaves the tree as it was: root, size, all links and colors,
\* the sentinel's parent link.
C10_EraseSentinel ==
    (/\ last.op = "erase"
     /\ last.node = Nil)
    => /\ last.count = 0
       /\ Tree = old

\* An erase of a key that is absent from a tree of three nodes or more.
C10_Witness ==
    /\ last.op = "erase"
    /\ last.node = Nil
    /\ last.val \in Keys \ KeySet(old)
    /\ old.size >= 3

C12_SizeCounts ==
    /\ size = Cardinality(RealNodes(Tree))
    /\ size = 0 => root = Nil /\ get_begin(Tree) = get_end(Tree)
    /\ size > 0 => get_begin(Tree) # get_end(Tree)

\* A tree that held MaxKey distinct keys, size() = MaxKey, has been cleared.
C12_Witness ==
    /\ last.op = "clear"
    /\ old.size = MaxKey
    /\ Cardinality(RealNodes(old)) = MaxKey
    /\ size = 0

\* C13: find(key) returns a node holding key for every key in the tree and
\* the sentinel for every key not in it.
C13_Find ==
    \A k \in Keys :
       IF k \in KeySet(Tree)
       THEN find(Tree, k) \in RealNodes(Tree) /\ value[find(Tree, k)] = k
       ELSE find(Tree, k) = Nil

\* A key that was in a tree has been erased and find now returns the sentinel
\* for it, while three keys or more are still found.
C13_Witness ==
    /\ last.op = "erase"
    /\ last.count = 1
    /\ size >= 3
    /\ find(old, old.value[last.node]) = last.node
    /\ find(Tree, old.value[last.node]) = Nil

\* C14: lower_bound(key) returns the node with the smallest key that is not
\* less than key, and the sentinel when every key of the tree is less than
\* key or the tree is empty.
C14_LowerBound ==
    \A k \in 0..(MaxKey + 1) :
       With({n \in RealNodes(Tree) : ~comp(value[n], k)}, LAMBDA S :
       With(lower_bound(Tree, k), LAMBDA lb :
       IF S = {}
       THEN lb = Nil
       ELSE lb \in S /\ \A m \in S : ~comp(value[m], value[lb])))

\* The tree holds 1, 3, 5, 7: lower_bound(4) and lower_bound(5) are the node
\* with 5, lower_bound(8) is the sentinel.
C14_Witness ==
    /\ KeySet(Tree) = {1, 3, 5, 7}
    /\ value[lower_bound(Tree, 4)] = 5
    /\ value[lower_bound(Tree, 5)] = 5
    /\ lower_bound(Tree, 8) = Nil

\* C15: upper_bound(key) returns the node with the smallest key greater than
\* key, and the sentinel when no key of the tree is greater or the tree is
\* empty; for a key in the tree it is the in-order successor of
\* lower_bound(key).
C15_UpperBound ==
    \A k \in 0..(MaxKey + 1) :
       With({n \in RealNodes(Tree) : comp(k, value[n])}, LAMBDA S :
       With(upper_bound(Tree, k), LAMBDA ub :
       /\ IF S = {}
          THEN ub = Nil
          ELSE ub \in S /\ \A m \in S : ~comp(value[m], value[ub])
       /\ k \in KeySet(Tree) => ub = advance(Tree, lower_bound(Tree, k))))

\* The tree holds 1, 3, 5, 7: upper_bound(5) is the node with 7 and
\* upper_bound(7) is the sentinel.
C15_Witness ==
    /\ KeySet(Tree) = {1, 3, 5, 7}
    /\ value[upper_bound(Tree, 5)] = 7
    /\ upper_bound(Tree, 7) = Nil
    /\ upper_bound(Tree, 4) = lower_bound(Tree, 4)

\* C16: after every mutating operation (insert, erase, clear) the sentinel's
\* parent link references the live node holding the maximum key, or the
\* sentinel itself when the tree is empty: never a destroyed node.
C16_SentinelParent ==
    /\ parent[Nil] \in live
    /\ size = 0 => parent[Nil] = Nil
    /\ size > 0 => /\ parent[Nil] \in RealNodes(Tree)
                   /\ \A n \in RealNodes(Tree) : ~comp(value[parent[Nil]], value[n])

\* C17: advance and retreat are inverse to each other: for every real node p
\* retreat(advance(p)) = p, the maximum included (advance gives end() and
\* retreat of end() the maximum); for every real node p but the minimum
\* advance(retreat(p)) = p.
C17_AdvanceRetreat ==
    \A p \in RealNodes(Tree) :
       /\ retreat(Tree, advance(Tree, p)) = p
       /\ p # get_begin(Tree) => advance(Tree, retreat(Tree, p)) = p

\* An erase has removed the maximum of a tree of five nodes or more; from the
\* new maximum, which is not the root, advance gives end() and retreat of
\* end() gives it back.
C17_Witness ==
    /\ last.op = "erase"
    /\ old.size >= 5
    /\ last.node = old.parent[Nil]
    /\ parent[Nil] # root
    /\ advance(Tree, parent[Nil]) = get_end(Tree)
    /\ retreat(Tree, get_end(Tree)) = parent[Nil]

\* C18: on a non-empty map the loop from rbegin() to rend() visits every
\* element once, in the reverse of the order of begin()..end() (strictly
\* decreasing keys), and *rbegin() is the element with the maximum key.
C18_ReverseOrder ==
    size > 0 =>
       With(InOrder(Tree, root, MaxKey + 2), LAMBDA fwd :
       With(ReverseOrder(Tree, rbegin(Tree), MaxKey + 2), LAMBDA rev :
       /\ Len(rev) = Len(fwd)
       /\ \A i \in 1..Len(rev) : rev[i] = fwd[Len(fwd) + 1 - i]
       /\ \A i \in 1..(Len(rev) - 1) : comp(value[rev[i + 1]], value[rev[i]])
       /\ \A n \in RealNodes(Tree) :
             ~comp(value[reverse_deref(Tree, rbegin(Tree))], value[n])))

\* An insert has put a new maximum into a tree of four nodes or more, and the
\* reverse loop starts at it and visits all five or more.
C18_Witness ==
    /\ last.op = "insert"
    /\ last.second
    /\ old.size >= 4
    /\ \A n \in RealNodes(old) : comp(old.value[n], last.val)
    /\ reverse_deref(Tree, rbegin(Tree)) = last.first
    /\ Len(ReverseOrder(Tree, rbegin(Tree), MaxKey + 2)) = size

\* C19: clear() removes all elements: afterwards size() = 0, empty() holds,
\* the root is the sentinel, begin() = end(), find returns the sentinel for
\* every key, every node but the sentinel is released, and an insert gives
\* what it gives on a freshly constructed tree (the tree, the node, the
\* flag), so that any sequence of inserts does.
C19_Clear ==
    last.op = "clear" =>
       /\ root = Nil
       /\ size = 0
       /\ live = {Nil}
       /\ RealNodes(Tree) = {}
       /\ get_begin(Tree) = get_end(Tree)
       /\ \A k \in Keys : find(Tree, k) = Nil
       /\ \A val \in Keys :
             insert(Tree, val, NullPtr) = insert(EmptyTree, val, NullPtr)

\* A clear() of a red-black tree of five nodes or more, of height three or
\* more.
C19_Witness ==
    /\ last.op = "clear"
    /\ old.size >= 5
    /\ \E n \in RealNodes(old) : old.parent[n] # Nil /\ old.parent[old.parent[n]] # Nil
    /\ size = 0

\* C20: the tree owns exactly its live nodes: after insert (duplicates
\* included), erase and clear the allocated nodes are the sentinel and the
\* real nodes reachable from the root, and no link of an allocated node or of
\* the sentinel leads to a released node.
C20_Ownership ==
    /\ live = {Nil} \cup RealNodes(Tree)
    /\ \A n \in live : /\ leftChild[n] \in live
                       /\ rightChild[n] \in live
                       /\ parent[n] \in live

\* ------------------------------------------------------------------------
\* Two maps.

PairKeys == 1..MaxPairKey

\* The second map's tree: its members, and the memory both maps' nodes are in.
OtherTree ==
    [Tree EXCEPT !.root = other.root, !.nil = other.nil, !.size = other.size]

\* The second map's tree before the last call.
OldOtherTree ==
    [old EXCEPT !.root = oldOther.root, !.nil = oldOther.nil, !.size = oldOther.size]

\* RBTree::copy(node_type* node): the payload of node inserted, then those of
\* its left and of its right subtree.
RECURSIVE copy_node(_, _)
copy_node(t, node) ==
    IF t.value[node] = NoValue THEN t
    ELSE With(insert(t, t.value[node], NullPtr), LAMBDA r :
         With(IF r.t.value[r.t.leftChild[node]] # NoValue
              THEN copy_node(r.t, r.t.leftChild[node]) ELSE r.t, LAMBDA t1 :
         IF t1.value[t1.rightChild[node]] # NoValue
         THEN copy_node(t1, t1.rightChild[node]) ELSE t1))

\* A copy that keeps what the tree held.
copy_no_clear(t, x) == copy_node(t, x.root)

\* RBTree::copy(const RBTree& x): clear(), then copy(x._root).
copy(t, x) ==
    With(clear(t, NullPtr), LAMBDA c : copy_node(c, x.root))

\* A swap that leaves each tree its sentinel.
swap_nil_kept(t, x) ==
    [t |-> [t EXCEPT !.root = x.root, !.size = x.size],
     x |-> [root |-> t.root, nil |-> x.nil, size |-> t.size]]

\* RBTree::swap(RBTree& x): the members exchanged one by one (the comparison
\* object and the allocator hold no state).
swap(t, x) ==
    [t |-> [t EXCEPT !.root = x.root, !.nil = x.nil, !.size = x.size],
     x |-> [root |-> t.root, nil |-> t.nil, size |-> t.size]]

\* Two maps after their construction: each has made its sentinel.
InitPair ==
    /\ root = Nil /\ nil = Nil /\ size = 0
    /\ other = [root |-> Nil2, nil |-> Nil2, size |-> 0]
    /\ leftChild = [EmptyTree.leftChild EXCEPT ![Nil2] = Nil2]
    /\ rightChild = [EmptyTree.rightChild EXCEPT ![Nil2] = Nil2]
    /\ parent = [EmptyTree.parent EXCEPT ![Nil2] = Nil2]
    /\ color = EmptyTree.color
    /\ value = EmptyTree.value
    /\ live = {Nil, Nil2}
    /\ mapped = [n \in Addr |-> DefaultMapped]
    /\ last = NoCall
    /\ old = [Tree EXCEPT !.root = root]
    /\ oldMapped = mapped
    /\ rit = NoIterator
    /\ oldOther = other

\* map::swap(x)
Swap ==
    \E t \in {Tree} : \E r \in {swap(t, other)} :
       /\ Commit(r.t)
       /\ other' = r.x
       /\ last' = [NoCall EXCEPT !.op = "swap"]
       /\ old' = t
       /\ oldMapped' = mapped
       /\ rit' = rit
       /\ oldOther' = other
       /\ mapped' = mapped

\* map::operator=(x), x the second map: _tree.copy(x._tree); every element is
\* made from the pair of the element it copies.
Assign ==
    /\ Cardinality(RealAddr \ (live \ RealNodes(Tree))) >= other.size
    /\ \E t \in {Tree} : \E c \in {copy(t, other)} :
          /\ Commit(c)
          /\ other' = other
          /\ last' = [NoCall EXCEPT !.op = "assign"]
          /\ old' = t
          /\ oldMapped' = mapped
          /\ rit' = rit
          /\ oldOther' = other
          /\ mapped' = Stored([n \in Addr |->
                                 IF n \in RealNodes(c)
                                 THEN mapped[find(OtherTree, c.value[n])]
                                 ELSE mapped[n]], c)

\* map::operator=(x), x the map itself: this == &x, nothing is done.
AssignSelf ==
    /\ last' = [NoCall EXCEPT !.op = "assign_self"]
    /\ old' = Tree
    /\ oldMapped' = mapped
    /\ rit' = rit
    /\ oldOther' = other
    /\ UNCHANGED <<root, nil, size, leftChild, rightChild, parent, color, value,
                   live, other, mapped>>

NextPair ==
    \/ \E val \in PairKeys : Insert(val)
    \/ \E position \in RealAddr : Erase(position)
    \/ \E k \in PairKeys : EraseKey(k)
    \/ Clear
    \/ Swap
    \/ Assign
    \/ AssignSelf

SpecPair == InitPair /\ [][NextPair]_vars

\* ------------------------------------------------------------------------
\* Properties of two maps.

\* The red-black properties of t, and its sentinel.
RedBlack(t) ==
    /\ t.nil \in t.live /\ t.value[t.nil] = NoValue /\ t.color[t.nil] = BLACK
    /\ t.size = Cardinality(RealNodes(t))
    /\ t.size > 0 => /\ t.value[t.root] # NoValue
                     /\ t.color[t.root] = BLACK
                     /\ t.parent[t.root] = t.nil
    /\ t.size = 0 => t.root = t.nil
    /\ StrictlyIncreasing(InOrderKeys(t))
    /\ \A n \in RealNodes(t) :
          /\ n \in t.live
          /\ t.color[n] = RED => /\ t.color[t.leftChild[n]] = BLACK
                                 /\ t.color[t.rightChild[n]] = BLACK
          /\ Cardinality(BlackCounts(t, n, MaxKey + 2)) = 1
          /\ \A c \in {t.leftChild[n], t.rightChild[n]} :
                t.value[c] = NoValue => c = t.nil

\* The node at n is in t what it is in u: links, color and payload.
SameNode(t, u, n) ==
    /\ t.leftChild[n] = u.leftChild[n]
    /\ t.rightChild[n] = u.rightChild[n]
    /\ t.parent[n] = u.parent[n]
    /\ t.color[n] = u.color[n]
    /\ t.value[n] = u.value[n]
    /\ (n \in t.live) = (n \in u.live)

\* The pairs (key, mapped value) of t in in-order.
Payloads(t) ==
    With(InOrder(t, t.root, MaxKey + 2), LAMBDA s :
         [i \in 1..Len(s) |-> <<t.value[s[i]], mapped[s[i]]>>])

\* C21: after a = b the payloads of a in in-order and its size are those of
\* b, b is what it was, a has the red-black properties with a sentinel of its
\* own, and no node is in both maps; a call that changes a leaves the nodes and
\* the sentinel of b as they were; a = a changes nothing.
C21_Assign ==
    /\ last.op = "assign" =>
          /\ Payloads(Tree) = Payloads(OtherTree)
          /\ size = other.size
          /\ other = oldOther
          /\ InOrder(OtherTree, other.root, MaxKey + 2)
                = InOrder(OldOtherTree, oldOther.root, MaxKey + 2)
          /\ RedBlack(Tree)
          /\ nil # other.nil
          /\ RealNodes(Tree) \cap RealNodes(OtherTree) = {}
    /\ last.op \in {"assign", "insert", "erase", "clear"} =>
          /\ other = oldOther
          /\ \A n \in RealNodes(OldOtherTree) \cup {oldOther.nil} :
                SameNode(Tree, old, n)
    /\ last.op = "assign_self" => Tree = old /\ other = oldOther

\* a = b has replaced the elements of a by copies of the four elements of b.
C21_Witness ==
    /\ last.op = "assign"
    /\ old.size >= 2
    /\ other.size = MaxPairKey
    /\ KeySet(old) # KeySet(Tree)

MappedVals == 0..MaxMapped

\* map::insert(val), val the pair (k, m)
InsertPair(k, m) ==
    /\ RealAddr \ live # {}
    /\ \E t \in {Tree} : \E r \in {insert(t, k, NullPtr)} :
          /\ Commit(r.t)
          /\ last' = [NoCall EXCEPT !.op = "insert", !.val = k,
                                    !.first = r.first, !.second = r.second]
          /\ old' = t
          /\ oldMapped' = mapped
          /\ rit' = rit
          /\ other' = other /\ oldOther' = other
          /\ mapped' = Stored([mapped EXCEPT ![r.first] =
                                   IF r.second THEN m ELSE @], r.t)

\* An operator[] that gives the element it finds the default mapped value.
Index_overwrite(k) ==
    /\ RealAddr \ live # {}
    /\ \E t \in {Tree} : \E r \in {insert(t, k, NullPtr)} :
          /\ Commit(r.t)
          /\ last' = [NoCall EXCEPT !.op = "index", !.val = k,
                                    !.first = r.first, !.second = r.second]
          /\ old' = t
          /\ oldMapped' = mapped
          /\ rit' = rit
          /\ other' = other /\ oldOther' = other
          /\ mapped' = Stored([mapped EXCEPT ![r.first] = DefaultMapped], r.t)

\* map::operator[](k): _tree.insert(make_pair(k, mapped_type())); the reference
\* returned is to the second of the pair in the node insert returns.
Index(k) ==
    /\ RealAddr \ live # {}
    /\ \E t \in {Tree} : \E r \in {insert(t, k, NullPtr)} :
          /\ Commit(r.t)
          /\ last' = [NoCall EXCEPT !.op = "index", !.val = k,
                                    !.first = r.first, !.second = r.second]
          /\ old' = t
          /\ oldMapped' = mapped
          /\ rit' = rit
          /\ other' = other /\ oldOther' = other
          /\ mapped' = Stored([mapped EXCEPT ![r.first] =
                                   IF r.second THEN DefaultMapped ELSE @], r.t)

NextIndex ==
    \/ \E k \in PairKeys, m \in MappedVals : InsertPair(k, m)
    \/ \E k \in PairKeys : Index(k)
    \/ \E k \in PairKeys : EraseKey(k)

SpecIndex == Init /\ [][NextIndex]_vars

\* C23: operator[](k) with k not a key of the map adds one element, with key k
\* and the default mapped value, makes size() one more and returns a reference
\* to that element's mapped value; with k a key of the map it returns a
\* reference to the mapped value of the element with key k and changes neither
\* size() nor a key nor a mapped value.
C23_Index ==
    last.op = "index" =>
       /\ last.first \in RealNodes(Tree)
       /\ value[last.first] = last.val
       /\ \A n \in RealNodes(old) :
             /\ n \in RealNodes(Tree)
             /\ value[n] = old.value[n]
             /\ mapped[n] = oldMapped[n]
       /\ IF last.val \notin KeySet(old)
          THEN /\ last.second
               /\ size = old.size + 1
               /\ RealNodes(Tree) = RealNodes(old) \cup {last.first}
               /\ last.first \notin RealNodes(old)
               /\ mapped[last.first] = DefaultMapped
          ELSE /\ ~last.second
               /\ size = old.size
               /\ RealNodes(Tree) = RealNodes(old)
               /\ last.first = find(old, last.val)
               /\ live = old.live

\* operator[] has found an element whose mapped value is not the default one.
C23_Witness ==
    /\ last.op = "index"
    /\ ~last.second
    /\ size >= 3
    /\ mapped[last.first] # DefaultMapped

\* ------------------------------------------------------------------------
\* Erasing a range.

RangeKeys == 1..MaxRangeKey

RECURSIVE erase_range_last_too(_, _, _)
\* A loop that erases the element at last as well.
erase_range_last_too(t, first, lastIt) ==
    IF first = lastIt
    THEN [t |-> erase(t, first).t, valid |-> TRUE]
    ELSE With(advance(t, first), LAMBDA next :
         With(erase(t, first).t, LAMBDA t1 :
         IF next \in t1.live /\ (next = t1.nil \/ next \in RealNodes(t1))
         THEN erase_range_last_too(t1, next, lastIt)
         ELSE [t |-> t1, valid |-> FALSE]))

RECURSIVE erase_range(_, _, _)
\* map::erase(first, last): while (first != last) erase(first++); first++
\* steps first before the element it was at is erased.  valid: after each
\* erase first is at an element of the tree or at end(); the loop is followed
\* no further once it is not.
erase_range(t, first, lastIt) ==
    IF first = lastIt
    THEN [t |-> t, valid |-> TRUE]
    ELSE With(advance(t, first), LAMBDA next :
         With(erase(t, first).t, LAMBDA t1 :
         IF next \in t1.live /\ (next = t1.nil \/ next \in RealNodes(t1))
         THEN erase_range(t1, next, lastIt)
         ELSE [t |-> t1, valid |-> FALSE]))

\* The place of node n in the sequence s; Len(s) + 1 for end().
Place(s, n) ==
    IF \E i \in 1..Len(s) : s[i] = n
    THEN CHOOSE i \in 1..Len(s) : s[i] = n
    ELSE Len(s) + 1

\* The nodes of the range [first, last) of t.
Range(t, first, lastIt) ==
    With(InOrder(t, t.root, MaxKey + 2), LAMBDA s :
         {s[i] : i \in Place(s, first)..(Place(s, lastIt) - 1)})

\* map::erase(first, last), first and last iterators at elements of the map or
\* end(), last not before first
EraseRange(first, lastIt) ==
    \E t \in {Tree} :
       /\ first \in RealNodes(t) \cup {get_end(t)}
       /\ lastIt \in RealNodes(t) \cup {get_end(t)}
       /\ \E s \in {InOrder(t, t.root, MaxKey + 2)} : Place(s, first) <= Place(s, lastIt)
       /\ \E r \in {erase_range(t, first, lastIt)} :
             /\ Commit(r.t)
             /\ last' = [NoCall EXCEPT !.op = "erase_range", !.node = first,
                                       !.upto = lastIt, !.valid = r.valid]
             /\ old' = t
             /\ oldMapped' = mapped
             /\ rit' = rit
             /\ other' = other /\ oldOther' = other
             /\ mapped' = Stored(mapped, r.t)

NextRange ==
    \/ \E val \in RangeKeys : Insert(val)
    \/ \E position \in RealAddr : Erase(position)
    \/ \E first \in Addr, lastIt \in Addr : EraseRange(first, lastIt)

SpecRange == Init /\ [][NextRange]_vars

\* C24: erase(first, last) removes the elements of [first, last) and no other:
\* the keys afterwards are the keys before less those of the range, size() is
\* less by the length of the range, every element outside the range, the one
\* at last among them, is the node it was with its pair, the nodes of the
\* range are released, and after each erase in the loop the iterator stepped
\* before it is at an element of the tree or at end().
C24_EraseRange ==
    last.op = "erase_range" =>
       \E R \in {Range(old, last.node, last.upto)} :
          /\ last.valid
          /\ KeySet(Tree) = KeySet(old) \ {old.value[n] : n \in R}
          /\ size = old.size - Cardinality(R)
          /\ RealNodes(Tree) = RealNodes(old) \ R
          /\ R \cap live = {}
          /\ \A n \in RealNodes(Tree) :
                value[n] = old.value[n] /\ mapped[n] = oldMapped[n]
          /\ last.upto # old.nil =>
                /\ last.upto \in RealNodes(Tree)
                /\ value[last.upto] = old.value[last.upto]
          /\ StrictlyIncreasing(InOrderKeys(Tree))

\* A range of three elements or more that holds the root and ends at an
\* element has been erased from a tree with an element before the range.
C24_Witness ==
    /\ last.op = "erase_range"
    /\ last.upto # old.nil
    /\ old.root \in Range(old, last.node, last.upto)
    /\ Cardinality(Range(old, last.node, last.upto)) >= 3
    /\ last.node # get_begin(old)

\* ------------------------------------------------------------------------
\* Balance.

\* The number of links on the shortest way down from n to the sentinel (to
\* depth k).
RECURSIVE Nearest(_, _, _)
Nearest(t, n, k) ==
    IF k = 0 \/ t.value[n] = NoValue THEN 0
    ELSE With(Nearest(t, t.leftChild[n], k - 1), LAMBDA l :
         With(Nearest(t, t.rightChild[n], k - 1), LAMBDA r :
         1 + (IF l <= r THEN l ELSE r)))

\* The number of links on the longest way down from n to the sentinel (to
\* depth k).
RECURSIVE Farthest(_, _, _)
Farthest(t, n, k) ==
    IF k = 0 \/ t.value[n] = NoValue THEN 0
    ELSE With(Farthest(t, t.leftChild[n], k - 1), LAMBDA l :
         With(Farthest(t, t.rightChild[n], k - 1), LAMBDA r :
         1 + (IF l >= r THEN l ELSE r)))

\* C25: in a tree that holds an element the way from the root to the farthest
\* sentinel leaf is shorter than twice the way from the root to the nearest
\* sentinel leaf.
C25_LessThanTwice ==
    size > 0 =>
       Farthest(Tree, root, MaxKey + 2) < 2 * Nearest(Tree, root, MaxKey + 2)

\* ------------------------------------------------------------------------
\* Rotations.

\* r is t with x rotated to the left: child, the right child of x, is where x
\* was (below the parent of x on the side x was on, or at the root with the
\* sentinel as parent), x is the left child of child, the left subtree of
\* child is the right subtree of x, and nothing else differs.
RotatedLeft(t, x, r) ==
    With(t.rightChild[x], LAMBDA child :
    With(t.parent[x], LAMBDA par :
    With(t.leftChild[child], LAMBDA inner :
    /\ InOrderKeys(r) = InOrderKeys(t)
    /\ r.root = (IF t.value[par] # NoValue THEN t.root ELSE child)
    /\ r.nil = t.nil /\ r.size = t.size /\ r.live = t.live
    /\ r.color = t.color /\ r.value = t.value
    /\ \A n \in Addr :
          /\ r.leftChild[n] =
                (IF n = child THEN x
                 ELSE IF n = par /\ t.value[par] # NoValue /\ t.leftChild[par] = x
                      THEN child
                 ELSE t.leftChild[n])
          /\ r.rightChild[n] =
                (IF n = x THEN inner
                 ELSE IF n = par /\ t.value[par] # NoValue /\ t.leftChild[par] # x
                      THEN child
                 ELSE t.rightChild[n])
          /\ r.parent[n] =
                (IF n = x THEN child
                 ELSE IF n = child THEN par
                 ELSE IF n = inner /\ t.value[inner] # NoValue THEN x
                 ELSE t.parent[n]))))

\* r is t with x rotated to the right: the mirror image of RotatedLeft.
RotatedRight(t, x, r) ==
    With(t.leftChild[x], LAMBDA child :
    With(t.parent[x], LAMBDA par :
    With(t.rightChild[child], LAMBDA inner :
    /\ InOrderKeys(r) = InOrderKeys(t)
    /\ r.root = (IF t.value[par] # NoValue THEN t.root ELSE child)
    /\ r.nil = t.nil /\ r.size = t.size /\ r.live = t.live
    /\ r.color = t.color /\ r.value = t.value
    /\ \A n \in Addr :
          /\ r.rightChild[n] =
                (IF n = child THEN x
                 ELSE IF n = par /\ t.value[par] # NoValue /\ t.rightChild[par] = x
                      THEN child
                 ELSE t.rightChild[n])
          /\ r.leftChild[n] =
                (IF n = x THEN inner
                 ELSE IF n = par /\ t.value[par] # NoValue /\ t.rightChild[par] # x
                      THEN child
                 ELSE t.leftChild[n])
          /\ r.parent[n] =
                (IF n = x THEN child
                 ELSE IF n = child THEN par
                 ELSE IF n = inner /\ t.value[inner] # NoValue THEN x
                 ELSE t.parent[n]))))

\* C26: rotate_left(x), x a node with a real right child, and rotate_right(x),
\* x a node with a real left child, keep the keys of the tree in their in-order
\* sequence, put the child where x was (at the root, with the sentinel as
\* parent, when x was the root), make x the parent of the subtree that changes
\* sides, and change no color and no other link.
C26_Rotate ==
    \A x \in RealNodes(Tree) :
       /\ value[rightChild[x]] # NoValue
             => RotatedLeft(Tree, x, rotate_left(Tree, x))
       /\ value[leftChild[x]] # NoValue
             => RotatedRight(Tree, x, rotate_right(Tree, x))

\* An insert has rotated, and the tree has a node below the root whose right
\* child has a left subtree, and a node whose left child has a right subtree.
C26_Witness ==
    /\ last.op = "insert" /\ last.second
    /\ \E n \in RealNodes(old) : parent[n] # old.parent[n]
    /\ \E x \in RealNodes(Tree) :
          /\ x # root
          /\ value[rightChild[x]] # NoValue
          /\ value[leftChild[rightChild[x]]] # NoValue
    /\ \E x \in RealNodes(Tree) :
          /\ value[leftChild[x]] # NoValue
          /\ value[rightChild[leftChild[x]]] # NoValue

\* ------------------------------------------------------------------------
\* Links.

\* The parent and child links of t agree.
LinksAgree(t) ==
    /\ \A n \in RealNodes(t) :
          /\ \A c \in {t.leftChild[n], t.rightChild[n]} :
                IF t.value[c] # NoValue THEN t.parent[c] = n ELSE c = t.nil
          /\ t.leftChild[n] = t.rightChild[n] => t.leftChild[n] = t.nil
          /\ n # t.root =>
                /\ t.parent[n] \in RealNodes(t)
                /\ n \in {t.leftChild[t.parent[n]], t.rightChild[t.parent[n]]}
    /\ Len(InOrder(t, t.root, MaxKey + 2)) = Cardinality(RealNodes(t))

\* C27: after each insert, erase, clear and copy (and swap) every real child
\* of a node of the tree has that node as parent, every node but the root is
\* the left or the right child of its parent, a node of the tree, every node
\* is met once in the walk from the root, a child that is absent is the
\* tree's sentinel, and every allocated node is a sentinel or a node of one of
\* the two trees.
C27_Links ==
    /\ LinksAgree(Tree)
    /\ LinksAgree(OtherTree)
    /\ live = {nil, other.nil} \cup RealNodes(Tree) \cup RealNodes(OtherTree)

\* A copy has rebuilt, in a tree that held three elements or more, the four
\* elements of the other tree, a RED one among them.
C27_Witness ==
    /\ last.op = "assign"
    /\ old.size >= 3
    /\ size = MaxPairKey
    /\ \E n \in RealNodes(Tree) : color[n] = RED /\ parent[n] # root

\* ------------------------------------------------------------------------
\* The steps of the fix-up after an insert.

DeepKeys == 1..MaxDeepKey

NextDeep ==
    \/ \E val \in DeepKeys : Insert(val)
    \/ \E position \in RealAddr : Erase(position)

SpecDeep == Init /\ [][NextDeep]_vars

\* The number of parent links from n up to the root (to depth k).
RECURSIVE Depth(_, _, _)
Depth(t, n, k) ==
    IF k = 0 \/ n = t.root \/ t.value[t.parent[n]] = NoValue THEN 0
    ELSE 1 + Depth(t, t.parent[n], k - 1)

\* One step of a fix-up: what is done, at which node, how deep the node is.
Step(kind, t, node) ==
    <<[step |-> kind, node |-> node, depth |-> Depth(t, node, MaxKey + 2)]>>

\* The steps s, then those of r.
Then(s, r) == [t |-> r.t, steps |-> s \o r.steps]

\* insert up to the call of insert_case1, for a key the tree does not hold and
\* a tree that is not empty: the node made and linked in by get_position.
insert_linked(t, val) ==
    With(NewAddr(t, val), LAMBDA new_node :
    With(make_node(t, new_node, val), LAMBDA t0 :
    [t |-> get_position(t0, t0.root, new_node).t, node |-> new_node]))

RECURSIVE insert_case1_traced(_, _)

\* An insert_case5 that rotates at the grandparent, back, and again.
insert_case5_traced_thrice(t, node) ==
    With(get_grandparent(t, node), LAMBDA grand :
    With(t.parent[node], LAMBDA par :
    With(SetColor(t, par, BLACK), LAMBDA t1 :
    With(SetColor(t1, grand, RED), LAMBDA t2 :
    With(Step("rotate_grand", t, grand), LAMBDA s :
    IF node = t2.leftChild[t2.parent[node]]
    THEN [t |-> rotate_right(rotate_left(rotate_right(t2, grand), par), grand),
          steps |-> s \o s \o s]
    ELSE [t |-> rotate_left(rotate_right(rotate_left(t2, grand), par), grand),
          steps |-> s \o s \o s])))))

\* An insert_case5 that examines the subtree's new top once it has rotated.
insert_case5_traced_reexamine(t, node) ==
    Then(Step("rotate_grand", t, get_grandparent(t, node)),
         insert_case1_traced(insert_case5(t, node), t.parent[node]))

\* insert_case5 and its step: the rotation at the grandparent.
insert_case5_traced(t, node) ==
    [t |-> insert_case5(t, node),
     steps |-> Step("rotate_grand", t, get_grandparent(t, node))]

\* insert_case4 and its steps: the rotation at the parent when node is an
\* inner grandchild, then insert_case5.
insert_case4_traced(t, node) ==
    With(get_grandparent(t, node), LAMBDA grand :
    IF node = t.rightChild[t.parent[node]] /\ t.parent[node] = t.leftChild[grand]
    THEN With(rotate_left(t, t.parent[node]), LAMBDA t1 :
         Then(Step("rotate_parent", t, t.parent[node]),
              insert_case5_traced(t1, t1.leftChild[node])))
    ELSE IF node = t.leftChild[t.parent[node]] /\ t.parent[node] = t.rightChild[grand]
    THEN With(rotate_right(t, t.parent[node]), LAMBDA t1 :
         Then(Step("rotate_parent", t, t.parent[node]),
              insert_case5_traced(t1, t1.rightChild[node])))
    ELSE insert_case5_traced(t, node))

\* An insert_case3 that examines node again, not its grandparent.
insert_case3_traced_same_node(t, node) ==
    With(get_uncle(t, node), LAMBDA uncle :
    IF t.value[uncle] # NoValue /\ t.color[uncle] = RED
    THEN With(SetColor(t, t.parent[node], BLACK), LAMBDA t1 :
         With(SetColor(t1, uncle, BLACK), LAMBDA t2 :
         With(get_grandparent(t2, node), LAMBDA grand :
         With(SetColor(t2, grand, RED), LAMBDA t3 :
         Then(Step("recolor", t, node), insert_case1_traced(t3, node))))))
    ELSE insert_case4_traced(t, node))

\* insert_case3 and its steps: with a RED uncle the recoloring, then
\* insert_case1 at the grandparent; else insert_case4.
insert_case3_traced(t, node) ==
    With(get_uncle(t, node), LAMBDA uncle :
    IF t.value[uncle] # NoValue /\ t.color[uncle] = RED
    THEN With(SetColor(t, t.parent[node], BLACK), LAMBDA t1 :
         With(SetColor(t1, uncle, BLACK), LAMBDA t2 :
         With(get_grandparent(t2, node), LAMBDA grand :
         With(SetColor(t2, grand, RED), LAMBDA t3 :
         Then(Step("recolor", t, node), insert_case1_traced(t3, grand))))))
    ELSE insert_case4_traced(t, node))

insert_case2_traced(t, node) ==
    IF t.color[t.parent[node]] = RED
    THEN insert_case3_traced(t, node)
    ELSE [t |-> t, steps |-> <<>>]

\* insert_case1 and its steps: the examination of node, then insert_case2, or
\* the root made BLACK.
insert_case1_traced(t, node) ==
    IF t.value[t.parent[node]] # NoValue
    THEN Then(Step("case1", t, node), insert_case2_traced(t, node))
    ELSE [t |-> SetColor(t, node, BLACK), steps |-> Step("case1", t, node)]

\* The steps of the fix-up of the last call, an insert that added a node to a
\* tree that was not empty, and the tree the fix-up leaves.
LastFixup ==
    With(insert_linked(old, last.val), LAMBDA l : insert_case1_traced(l.t, l.node))

\* The last call was an insert that went through insert_case1.
Fixed == last.op = "insert" /\ last.second /\ old.size > 0

\* The cases followed step by step leave the tree insert_case1 leaves.
FixupAgrees ==
    \E l \in {insert_linked(old, last.val)} :
       LastFixup.t = insert_case1(l.t, l.node)

Rotation == {"rotate_parent", "rotate_grand"}

\* The places in s of the steps of a kind in K.
Places(s, K) == {i \in 1..Len(s) : s[i].step \in K}

\* C28: the fix-up of an insert rotates three times at most.
C28_Rotations ==
    Fixed =>
       /\ FixupAgrees
       /\ Cardinality(Places(LastFixup.steps, Rotation)) <= 3

\* An insert into a tree of seven elements has recolored and then rotated
\* twice.
C28_Witness ==
    /\ Fixed
    /\ old.size = 7
    /\ Cardinality(Places(LastFixup.steps, Rotation)) = 2
    /\ Places(LastFixup.steps, {"recolor"}) # {}

\* C29: in the fix-up of an insert every recoloring for a RED uncle, and every
\* examination of a node by insert_case1, comes before every rotation; the
\* rotation at the parent is followed by the rotation at the grandparent and
\* by nothing else, and the rotation at the grandparent is the last step.
C29_RecolorFirst ==
    Fixed =>
       \E s \in {LastFixup.steps} :
          /\ FixupAgrees
          /\ \A i \in Places(s, Rotation) :
                \A j \in Places(s, {"recolor", "case1"}) : j < i
          /\ \A i \in Places(s, {"rotate_grand"}) : i = Len(s)
          /\ \A i \in Places(s, {"rotate_parent"}) :
                i + 1 = Len(s) /\ s[i + 1].step = "rotate_grand"
          /\ \A i \in Places(s, {"recolor"}) :
                i < Len(s) /\ s[i + 1].step = "case1"

\* An insert has recolored, examined the grandparent, rotated at the parent
\* and then at the grandparent.
C29_Witness ==
    /\ Fixed
    /\ \E s \in {LastFixup.steps} :
          /\ Len(s) >= 5
          /\ s[2].step = "recolor"
          /\ s[Len(s) - 1].step = "rotate_parent"
          /\ s[Len(s)].step = "rotate_grand"

\* ------------------------------------------------------------------------
\* The steps of the fix-up after an erase, and of the loops that descend.

\* erase_unlinked without the exchange of replace_erase_node.
erase_unlinked_in_place(t, node) ==
    With(IF t.value[t.rightChild[node]] = NoValue
         THEN t.leftChild[node]
         ELSE t.rightChild[node], LAMBDA child :
    With(replace_node(t, node, child), LAMBDA t2 :
    [t |-> t2, child |-> child,
     called |-> t2.color[node] = BLACK /\ t2.color[child] # RED]))

\* erase up to the call of delete_case1: the tree with child in the place of
\* target, and whether delete_case1(child) is called.
erase_unlinked(t, node) ==
    With(replace_erase_node(t, node), LAMBDA t1 :
    With(IF t1.value[t1.rightChild[node]] = NoValue
         THEN t1.leftChild[node]
         ELSE t1.rightChild[node], LAMBDA child :
    With(replace_node(t1, node, child), LAMBDA t2 :
    [t |-> t2, child |-> child,
     called |-> t2.color[node] = BLACK /\ t2.color[child] # RED])))

\* delete_case2 that changes the colors for a RED sibling and does not rotate.
delete_case2_own_no_rotation(t, node) ==
    With(get_sibling(t, node), LAMBDA sibling :
    IF t.color[sibling] = RED
    THEN With(SetColor(t, t.parent[node], RED), LAMBDA t1 :
         SetColor(t1, sibling, BLACK))
    ELSE t)

\* delete_case2 up to its call of delete_case3.
delete_case2_own(t, node) ==
    With(get_sibling(t, node), LAMBDA sibling :
    IF t.color[sibling] = RED
    THEN With(SetColor(t, t.parent[node], RED), LAMBDA t1 :
         With(SetColor(t1, sibling, BLACK), LAMBDA t2 :
         IF node = t2.leftChild[t2.parent[node]]
         THEN rotate_left(t2, t2.parent[node])
         ELSE rotate_right(t2, t2.parent[node])))
    ELSE t)

RECURSIVE delete_case1_traced_same_node(_, _, _)
\* A delete_case3 that calls delete_case1 for node again, not for its parent
\* (followed for k calls).
delete_case1_traced_same_node(t, node, k) ==
    IF k = 0 THEN [t |-> t, steps |-> Step("unfinished", t, node)]
    ELSE IF t.value[t.parent[node]] # NoValue
    THEN With(delete_case2_own(t, node), LAMBDA t3 :
         With(get_sibling(t3, node), LAMBDA sibling :
         IF /\ t3.color[t3.parent[node]] = BLACK
            /\ t3.color[sibling] = BLACK
            /\ t3.color[t3.leftChild[sibling]] = BLACK
            /\ t3.color[t3.rightChild[sibling]] = BLACK
         THEN With(SetColor(t3, sibling, RED), LAMBDA t1 :
              Then(Step("case1", t, node),
                   delete_case1_traced_same_node(t1, node, k - 1)))
         ELSE [t |-> delete_case4(t3, node), steps |-> Step("case1", t, node)]))
    ELSE [t |-> t, steps |-> Step("case1", t, node)]

RECURSIVE delete_case1_traced(_, _, _)
\* delete_case1 and its steps: the examination of node; delete_case2; then
\* delete_case3, which with a BLACK parent, a BLACK sibling and BLACK nephews
\* makes the sibling RED and calls delete_case1 for the parent, and calls
\* delete_case4 otherwise (followed for k calls).
delete_case1_traced(t, node, k) ==
    IF k = 0 THEN [t |-> t, steps |-> Step("unfinished", t, node)]
    ELSE IF t.value[t.parent[node]] # NoValue
    THEN With(delete_case2_own(t, node), LAMBDA t3 :
         With(get_sibling(t3, node), LAMBDA sibling :
         IF /\ t3.color[t3.parent[node]] = BLACK
            /\ t3.color[sibling] = BLACK
            /\ t3.color[t3.leftChild[sibling]] = BLACK
            /\ t3.color[t3.rightChild[sibling]] = BLACK
         THEN With(SetColor(t3, sibling, RED), LAMBDA t1 :
              Then(Step("case1", t, node),
                   delete_case1_traced(t1, t1.parent[node], k - 1)))
         ELSE [t |-> delete_case4(t3, node), steps |-> Step("case1", t, node)]))
    ELSE [t |-> t, steps |-> Step("case1", t, node)]

\* The calls followed before a recursion or a loop is given up.
Fuel == MaxKey + 2

\* The nodes examined in s are each nearer to the root than the one before,
\* the recursion was followed to its end, and it made h calls at most after
\* the first.
Climbs(s, h) ==
    \E E \in {Places(s, {"case1"})} :
       /\ Places(s, {"unfinished"}) = {}
       /\ \A i \in E, j \in E : i < j => s[j].depth < s[i].depth
       /\ Cardinality(E) - 1 <= h

RECURSIVE find_steps(_, _, _, _)
\* The turns of the loop of RBTree::find from res (followed for k turns).
find_steps(t, res, val, k) ==
    IF k = 0 THEN 0
    ELSE IF t.value[res] # NoValue /\ (comp(val, t.value[res]) \/ comp(t.value[res], val))
    THEN IF comp(val, t.value[res])
         THEN 1 + find_steps(t, t.leftChild[res], val, k - 1)
         ELSE 1 + find_steps(t, t.rightChild[res], val, k - 1)
    ELSE 0

RECURSIVE get_position_steps(_, _, _, _)
\* The turns of the loop of get_position from position that go on to a child,
\* for a node with key val (followed for k turns).
get_position_steps(t, position, val, k) ==
    IF k = 0 \/ t.value[position] = NoValue THEN 0
    ELSE IF comp(val, t.value[position])
    THEN IF t.value[t.leftChild[position]] = NoValue THEN 0
         ELSE 1 + get_position_steps(t, t.leftChild[position], val, k - 1)
    ELSE IF comp(t.value[position], val)
    THEN IF t.value[t.rightChild[position]] = NoValue THEN 0
         ELSE 1 + get_position_steps(t, t.rightChild[position], val, k - 1)
    ELSE 0

RECURSIVE get_begin_steps(_, _, _)
\* The turns of the loop of get_begin from tmp (followed for k turns).
get_begin_steps(t, tmp, k) ==
    IF k = 0 THEN 0
    ELSE IF t.value[t.leftChild[tmp]] # NoValue
    THEN 1 + get_begin_steps(t, t.leftChild[tmp], k - 1)
    ELSE 0

RECURSIVE get_max_value_node_steps(_, _, _)
\* The turns of the loop of get_max_value_node from tmp (followed for k
\* turns).
get_max_value_node_steps(t, tmp, k) ==
    IF k = 0 THEN 0
    ELSE IF t.value[t.rightChild[tmp]] # NoValue
    THEN 1 + get_max_value_node_steps(t, t.rightChild[tmp], k - 1)
    ELSE 0

\* The loops that descend through t end within as many turns as the tree is
\* high, at the sentinel or at the node before it.
DescentsEnd(t) ==
    \E h \in {Farthest(t, t.root, Fuel)} :
       /\ h < Fuel
       /\ \A val \in 0..(MaxTallKey + 1) :
             /\ find_steps(t, t.root, val, Fuel) <= h
             /\ find(t, val) = t.nil \/ t.value[find(t, val)] = val
             /\ get_position_steps(t, t.root, val, Fuel) < h \/ h = 0
       /\ get_begin_steps(t, t.root, Fuel) < h \/ h = 0
       /\ t.leftChild[get_begin(t)] = t.nil
       /\ get_max_value_node_steps(t, t.root, Fuel) < h \/ h = 0
       /\ t.rightChild[get_max_value_node(t)] = t.nil

TallKeys == 1..MaxTallKey

\* map::insert(val); what the call was is not kept.
Grow(val) ==
    /\ RealAddr \ live # {}
    /\ \E t \in {Tree} : \E r \in {insert(t, val, NullPtr)} :
          /\ Commit(r.t)
          /\ mapped' = Stored([mapped EXCEPT ![r.first] =
                                   IF r.second THEN DefaultMapped ELSE @], r.t)
          /\ UNCHANGED <<other, last, old, oldOther, oldMapped, rit>>

\* map::erase(position), position an iterator at an element of the map; what
\* the call was is not kept.
Shrink(position) ==
    \E t \in {Tree} :
       /\ position \in RealNodes(t)
       /\ \E r \in {erase(t, position)} :
             /\ Commit(r.t)
             /\ mapped' = Stored(mapped, r.t)
             /\ UNCHANGED <<other, last, old, oldOther, oldMapped, rit>>

NextTall ==
    \/ \E val \in TallKeys : Grow(val)
    \/ \E position \in RealAddr : Shrink(position)

SpecTall == Init /\ [][NextTall]_vars

\* The steps of the fix-up of insert(val) in t, val a key t does not hold, t
\* not empty, and the tree insert_case1 is called in.
InsertFixup(t, val) ==
    With(insert_linked(t, val), LAMBDA l :
    With(insert_case1_traced(l.t, l.node), LAMBDA r :
    [steps |-> r.steps,
     agrees |-> r.t = insert_case1(l.t, l.node),
     height |-> Farthest(l.t, l.t.root, Fuel)]))

\* The steps of delete_case1(child) in erase(node) of t, for a node where
\* erase calls it.
EraseFixup(t, node) ==
    With(erase_unlinked(t, node), LAMBDA u :
    With(delete_case1_traced(u.t, u.child, Fuel), LAMBDA r :
    [steps |-> r.steps,
     agrees |-> r.t = delete_case1(u.t, u.child),
     height |-> Farthest(t, t.root, Fuel)]))

\* C30: insert and erase come to an end: in the fix-up of an insert each node
\* insert_case1 examines after a recoloring is nearer to the root than the one
\* before, in the fix-up of an erase each node delete_case1 examines after
\* delete_case3 has made a sibling RED is nearer to the root than the one
\* before, either recursion makes no more calls than the tree is high, and the
\* loops of find, get_position, get_begin and get_max_value_node end at the
\* sentinel within as many turns as the tree is high.
C30_Terminates ==
    /\ DescentsEnd(Tree)
    /\ size > 0 =>
          \A val \in TallKeys \ KeySet(Tree) :
             \E f \in {InsertFixup(Tree, val)} :
                f.agrees /\ Climbs(f.steps, f.height)
    /\ \A node \in RealNodes(Tree) :
          erase_unlinked(Tree, node).called =>
             \E f \in {EraseFixup(Tree, node)} :
                f.agrees /\ Climbs(f.steps, f.height)

\* A tree in which the erase of a node two links or more below the root makes
\* a sibling RED twice, and delete_case1 examines three nodes.
C30_Witness ==
    \E node \in RealNodes(Tree) :
       /\ erase_unlinked(Tree, node).called
       /\ \E s \in {EraseFixup(Tree, node).steps} :
             /\ Len(s) >= 3
             /\ s[1].depth >= 2
             /\ s[3].depth = s[1].depth - 2

\* ------------------------------------------------------------------------
\* The exchange of the node to erase with the one before it.

\* The sequence s with a and b in each other's place.
Exchange(s, a, b) ==
    [i \in 1..Len(s) |-> IF s[i] = a THEN b ELSE IF s[i] = b THEN a ELSE s[i]]

\* The place of n in its parent: the parent and the side n is on ("root" for
\* the node whose parent is the sentinel).
Slot(t, n) ==
    [parent |-> t.parent[n],
     side |-> IF t.value[t.parent[n]] = NoValue THEN "root"
              ELSE IF t.leftChild[t.parent[n]] = n THEN "left" ELSE "right"]

\* n is where slot says: linked from the parent on that side, or the root.
InSlot(t, n, slot) ==
    /\ t.parent[n] = slot.parent
    /\ slot.side = "root" => t.root = n
    /\ slot.side = "left" => t.leftChild[slot.parent] = n
    /\ slot.side = "right" => t.rightChild[slot.parent] = n

\* c is the child of n on the side given, and a real c has n as parent.
ChildIs(t, n, side, c) ==
    /\ (IF side = "left" THEN t.leftChild[n] ELSE t.rightChild[n]) = c
    /\ t.value[c] # NoValue => t.parent[c] = n

\* What replace_erase_node does to t for a node with a real left child: res,
\* the maximum of the left subtree, is the node before it in in-order; no
\* payload moves; res has the slot, the children and the color node had, node
\* those res had (node is the left child of res when res was its left child);
\* node has no real right child; in in-order the two have changed places and
\* every other node is where it was.
Exchanged(t, node) ==
    \E res \in {rightmost(t, t.leftChild[node])} :
    \E t1 \in {replace_erase_node(t, node)} :
    \E s \in {InOrder(t, t.root, MaxKey + 2)} :
       /\ \E i \in 1..(Len(s) - 1) : s[i] = res /\ s[i + 1] = node
       /\ t1.value = t.value /\ t1.live = t.live /\ t1.size = t.size
       /\ t1.nil = t.nil
       /\ t1.color[res] = t.color[node] /\ t1.color[node] = t.color[res]
       /\ \A n \in Addr \ {node, res} : t1.color[n] = t.color[n]
       /\ InSlot(t1, res, Slot(t, node))
       /\ ChildIs(t1, res, "right", t.rightChild[node])
       /\ ChildIs(t1, res, "left",
                  IF res = t.leftChild[node] THEN node ELSE t.leftChild[node])
       /\ IF res = t.leftChild[node]
          THEN InSlot(t1, node, [parent |-> res, side |-> "left"])
          ELSE InSlot(t1, node, Slot(t, res))
       /\ ChildIs(t1, node, "left", t.leftChild[res])
       /\ ChildIs(t1, node, "right", t.rightChild[res])
       /\ t1.value[t1.rightChild[node]] = NoValue
       /\ t.root # node => t1.root = t.root
       /\ InOrder(t1, t1.root, MaxKey + 2) = Exchange(s, node, res)

Erased == last.op = "erase" /\ last.count = 1

\* What erase(node) of t takes out is RED: both its children are the
\* sentinel, so is the child that replaces it, delete_case1 is not called, the
\* rebalancing step changes nothing, and the tree erase leaves has the
\* red-black properties.
RedSpliced(t, node) ==
    \E u \in {erase_unlinked(t, node)} :
       u.t.color[node] = RED =>
          /\ u.t.leftChild[node] = t.nil
          /\ u.t.rightChild[node] = t.nil
          /\ u.child = t.nil
          /\ ~u.called
          /\ erase_rebalance(u.t, node, u.child) = u.t
          /\ RedBlack(erase(t, node).t)

\* C32: in every erase, when the node taken out of the tree after the
\* exchange of replace_erase_node is RED, both its children are the sentinel
\* and nothing is rebalanced.  It holds of every node of the tree, and of the
\* node of the last erase in the tree before it.
C32_RedSpliced ==
    /\ \A node \in RealNodes(Tree) : RedSpliced(Tree, node)
    /\ Erased => RedSpliced(old, last.node)

\* The last erase was of a BLACK node with two real children, and the node
\* taken out in its place was RED.
C32_Witness ==
    /\ Erased
    /\ old.color[last.node] = BLACK
    /\ old.value[old.leftChild[last.node]] # NoValue
    /\ old.value[old.rightChild[last.node]] # NoValue
    /\ erase_unlinked(old, last.node).t.color[last.node] = RED

\* What erase(node) of t takes out is BLACK and the child that replaces it is
\* BLACK: the child is the sentinel, so was the other child, delete_case1 is
\* called for it, and the sentinel's parent is the parent the node had.
BlackSpliced(t, node) ==
    \E u \in {erase_unlinked(t, node)} :
       (u.t.color[node] = BLACK /\ u.t.color[u.child] = BLACK) =>
          /\ u.child = t.nil
          /\ u.t.leftChild[node] = t.nil
          /\ u.t.rightChild[node] = t.nil
          /\ u.called
          /\ u.t.parent[t.nil] = u.t.parent[node]
          /\ u.t.parent[node] = replace_erase_node(t, node).parent[node]

\* C33: in every erase, when the node taken out is BLACK and the child that
\* replaces it is BLACK, that child is the sentinel, the node had two sentinel
\* children, and the sentinel's parent is the node's parent when delete_case1
\* is called.  It holds of every node of the tree, and of the node of the last
\* erase in the tree before it.
C33_BlackSpliced ==
    /\ \A node \in RealNodes(Tree) : BlackSpliced(Tree, node)
    /\ Erased => BlackSpliced(old, last.node)

\* The last erase took out a BLACK node with a real parent that was not the
\* maximum, its place taken by the sentinel, and delete_case1 went on to
\* delete_case2.
C33_Witness ==
    /\ Erased
    /\ \E u \in {erase_unlinked(old, last.node)} :
          /\ u.called
          /\ u.child = old.nil
          /\ u.t.value[u.t.parent[last.node]] # NoValue
          /\ old.parent[old.nil] # last.node
          /\ old.parent[old.nil] # u.t.parent[last.node]

\* ------------------------------------------------------------------------
\* The sibling in the fix-up after an erase.

\* delete_case5 up to its call of delete_case6.
delete_case5_own(t, node) ==
    With(get_sibling(t, node), LAMBDA sibling :
    IF t.color[sibling] = BLACK
    THEN IF /\ node = t.leftChild[t.parent[node]]
            /\ t.color[t.rightChild[sibling]] = BLACK
            /\ t.color[t.leftChild[sibling]] = RED
         THEN With(SetColor(t, sibling, RED), LAMBDA t1 :
              With(SetColor(t1, t1.leftChild[sibling], BLACK), LAMBDA t2 :
              rotate_right(t2, sibling)))
         ELSE IF /\ node = t.rightChild[t.parent[node]]
                 /\ t.color[t.leftChild[sibling]] = BLACK
                 /\ t.color[t.rightChild[sibling]] = RED
         THEN With(SetColor(t, sibling, RED), LAMBDA t1 :
              With(SetColor(t1, t1.rightChild[sibling], BLACK), LAMBDA t2 :
              rotate_left(t2, sibling)))
         ELSE t
    ELSE t)

\* The child of the sibling of node on the side away from node.
FarNephew(t, node) ==
    With(get_sibling(t, node), LAMBDA sibling :
    IF node = t.leftChild[t.parent[node]]
    THEN t.rightChild[sibling]
    ELSE t.leftChild[sibling])

\* The conditions under which delete_case3 and delete_case4 do their own step.
AllBlackBelow(t, node, parent_color) ==
    With(get_sibling(t, node), LAMBDA sibling :
    /\ t.color[t.parent[node]] = parent_color
    /\ t.color[sibling] = BLACK
    /\ t.color[t.leftChild[sibling]] = BLACK
    /\ t.color[t.rightChild[sibling]] = BLACK)

\* One call of delete_case2(node) in t, node with a real parent: what the
\* sibling is once delete_case2 has done its own step (t3), whether
\* delete_case5 and delete_case6 are reached, what the sibling and the far
\* nephew are there (t5: the tree delete_case6 is called in), and whether the
\* cases followed one by one leave the tree delete_case2 leaves when there is
\* no call of delete_case1 for the parent.
SiblingFacts(t, node) ==
    With(delete_case2_own(t, node), LAMBDA t3 :
    With(get_sibling(t3, node), LAMBDA sibling :
    With(AllBlackBelow(t3, node, BLACK), LAMBDA again :
    With(~again /\ ~AllBlackBelow(t3, node, RED), LAMBDA reached5 :
    With(delete_case5_own(t3, node), LAMBDA t5 :
    [node |-> node,
     was_red |-> t.color[get_sibling(t, node)] = RED,
     real |-> t3.value[sibling] # NoValue,
     black |-> t3.color[sibling] = BLACK,
     again |-> again,
     reached5 |-> reached5,
     turned5 |-> reached5 /\ t5 # t3,
     real6 |-> t5.value[get_sibling(t5, node)] # NoValue,
     black6 |-> t5.color[get_sibling(t5, node)] = BLACK,
     far_real6 |-> t5.value[FarNephew(t5, node)] # NoValue,
     far_red6 |-> t5.color[FarNephew(t5, node)] = RED,
     agrees |-> \/ again
                \/ delete_case2(t, node) =
                      (IF reached5 THEN delete_case6(t5, node)
                       ELSE With(SetColor(t3, sibling, RED), LAMBDA t1 :
                            SetColor(t1, t1.parent[node], BLACK)))])))))

RECURSIVE delete_case1_siblings(_, _, _)
\* The calls of delete_case2 that delete_case1(node) in t leads to, the first
\* one first (followed for k calls).
delete_case1_siblings(t, node, k) ==
    IF k = 0 \/ t.value[t.parent[node]] = NoValue THEN <<>>
    ELSE With(SiblingFacts(t, node), LAMBDA f :
         IF f.again
         THEN With(delete_case2_own(t, node), LAMBDA t3 :
              With(SetColor(t3, get_sibling(t3, node), RED), LAMBDA t1 :
              <<f>> \o delete_case1_siblings(t1, t1.parent[node], k - 1)))
         ELSE <<f>>)

\* The calls of delete_case2 in erase(node) of t.
EraseSiblings(t, node) ==
    With(erase_unlinked(t, node), LAMBDA u :
    IF u.called THEN delete_case1_siblings(u.t, u.child, Fuel) ELSE <<>>)

\* C34: in the fix-up after an erase, once delete_case2 has done its step the
\* sibling of the node is a real BLACK node; so in delete_case5 the sibling is
\* BLACK, and delete_case6 is called with a real BLACK sibling whose far
\* nephew is real and RED.  It holds of the erase of every node of the tree,
\* at every node delete_case1 goes up to.
C34_Sibling ==
    \A node \in RealNodes(Tree) :
       \E s \in {EraseSiblings(Tree, node)} :
          \A i \in 1..Len(s) :
             /\ s[i].real /\ s[i].black
             /\ s[i].agrees
             /\ s[i].reached5 =>
                   /\ s[i].real6 /\ s[i].black6
                   /\ s[i].far_real6 /\ s[i].far_red6

\* A tree with a node whose erase finds a RED sibling, rotates in
\* delete_case2, rotates again in delete_case5 and reaches delete_case6.
C34_Witness ==
    \E node \in RealNodes(Tree) :
       \E s \in {EraseSiblings(Tree, node)} :
          Len(s) = 1 /\ s[1].was_red /\ s[1].turned5

\* ------------------------------------------------------------------------
\* The insert into an empty tree.

EmptyKeys == 1..MaxEmptyKey

\* insert, insert with a hint, erase and clear.  A run is followed up to the
\* first call that leaves the keys out of order.
NextEmpty ==
    /\ StrictlyIncreasing(InOrderKeys(Tree))
    /\ \/ \E val \in EmptyKeys : Insert(val)
       \/ \E position \in Addr, val \in EmptyKeys : InsertHint(position, val)
       \/ \E position \in RealAddr : Erase(position)
       \/ Clear

SpecEmpty == Init /\ [][NextEmpty]_vars

\* What insert(val, hint) returns for an empty t: the new node is the root,
\* BLACK, holds val, has the sentinel as both children and as parent and is
\* the sentinel's parent; the size is 1; the node comes back with true; the
\* sentinel is the one t had.
IntoEmpty(t, val, hint) ==
    \E r \in {insert(t, val, hint)} :
       /\ r.second
       /\ r.first \in RealAddr \ t.live
       /\ r.t.live = {t.nil, r.first}
       /\ r.t.root = r.first
       /\ r.t.value[r.first] = val
       /\ r.t.color[r.first] = BLACK
       /\ r.t.leftChild[r.first] = t.nil
       /\ r.t.rightChild[r.first] = t.nil
       /\ r.t.parent[r.first] = t.nil
       /\ r.t.parent[t.nil] = r.first
       /\ r.t.size = 1
       /\ r.t.nil = t.nil
       /\ RedBlack(r.t)

\* C35: insert into an empty tree, be it new or emptied by erase or by clear,
\* makes the new node the root, BLACK, with the sentinel as both children and
\* as parent, makes it the sentinel's parent, makes the size 1 and returns the
\* node with true, whatever the hint.  It holds of the tree when it is empty,
\* for every key and every hint (no hint, the sentinel, any address), and of
\* the last insert when the tree before it was empty.
C35_IntoEmpty ==
    /\ size = 0 =>
          \A val \in EmptyKeys, hint \in Addr \cup {NullPtr} :
             IntoEmpty(Tree, val, hint)
    /\ (last.op = "insert" /\ old.size = 0) =>
          /\ IntoEmpty(old, last.val, last.hint)
          /\ Tree = insert(old, last.val, last.hint).t
          /\ last.first = root /\ last.second

\* The last call was an insert with end() as hint into a tree that clear had
\* emptied (the sentinel's parent was the node clear released; see C16).
C35_Witness ==
    /\ last.op = "insert" /\ old.size = 0
    /\ last.hint = old.nil
    /\ old.parent[old.nil] \notin old.live
    /\ size = 1

\* ------------------------------------------------------------------------
\* The copy constructor of the tree.

\* make_nil: a sentinel made at address a.
make_nil(t, a) ==
    [t EXCEPT !.live = @ \cup {a}, !.color[a] = BLACK, !.leftChild[a] = a,
              !.rightChild[a] = a, !.parent[a] = a, !.value[a] = NoValue]

\* What a read through a null pointer does: the program stops there, or the
\* load goes through and the value field it reaches reads as NULL.  (A load
\* that reaches something else leads to reads through what it reached; those
\* are not followed.)
NullReads == {"trap", "null"}

\* RBTree(const RBTree& x) in the memory mem: _root(NULL), _nil(NULL),
\* _size(0); _nil = make_nil(); copy(x), which begins with clear(), which
\* begins with node = _root and node->leftChild->value; then
\* _nil->parent = get_max_value_node(), which begins with tmp = _root and
\* tmp->rightChild->value.  done: the constructor came to its end; valid: no
\* read went through a null pointer.
copy_construct(mem, x, read) ==
    With(make_nil([mem EXCEPT !.root = NullPtr, !.nil = NullPtr, !.size = 0], Nil2),
         LAMBDA m :
    With([m EXCEPT !.nil = Nil2], LAMBDA t0 :
    IF t0.root = NullPtr /\ read = "trap"
    THEN [t |-> t0, done |-> FALSE, valid |-> FALSE]
    ELSE With(IF t0.root = NullPtr THEN t0 ELSE clear(t0, NullPtr), LAMBDA c :
         With(copy_node(c, x.root), LAMBDA t1 :
         IF t1.root = NullPtr
         THEN IF read = "trap"
              THEN [t |-> t1, done |-> FALSE, valid |-> FALSE]
              ELSE [t |-> SetParent(t1, t1.nil, NullPtr), done |-> TRUE,
                    valid |-> FALSE]
         ELSE [t |-> SetParent(t1, t1.nil, get_max_value_node(t1)),
               done |-> TRUE, valid |-> t0.root # NullPtr]))))

\* The construction of the second tree as a copy of the first.  When the
\* constructor does not come to its end there is no second tree.  In last,
\* second is done and valid is valid.
CopyConstruct(read) ==
    /\ other = NoMap
    /\ Cardinality(RealAddr \ live) >= size
    /\ \E t \in {Tree} : \E r \in {copy_construct(t, t, read)} :
          /\ IF r.done
             THEN /\ Commit([r.t EXCEPT !.root = t.root, !.nil = t.nil,
                                        !.size = t.size])
                  /\ other' = [root |-> r.t.root, nil |-> r.t.nil,
                               size |-> r.t.size]
                  /\ mapped' = Stored([n \in Addr |->
                                         IF n \in r.t.live \ t.live
                                         THEN mapped[find(t, r.t.value[n])]
                                         ELSE mapped[n]], r.t)
             ELSE /\ Commit(t)
                  /\ other' = other
                  /\ mapped' = mapped
          /\ last' = [NoCall EXCEPT !.op = "copy_construct",
                                    !.second = r.done, !.valid = r.valid]
          /\ old' = t
          /\ oldMapped' = mapped
          /\ rit' = rit
          /\ oldOther' = other

NextCopy ==
    \/ \E val \in PairKeys : Insert(val)
    \/ \E position \in RealAddr : Erase(position)
    \/ \E read \in NullReads : CopyConstruct(read)

SpecCopy == Init /\ [][NextCopy]_vars

\* The second tree is a copy of x: a sentinel of its own, the size and the
\* payloads in in-order of x, and its maximum node as the sentinel's parent.
CopyOf(x) ==
    /\ other.nil \notin x.live
    /\ other.nil \in live /\ value[other.nil] = NoValue
    /\ other.size = x.size
    /\ InOrderKeys(OtherTree) = InOrderKeys(x)
    /\ Payloads(OtherTree) = Payloads(Tree)
    /\ parent[other.nil] = get_max_value_node(OtherTree)

\* C36: the construction of a tree as a copy of a tree x comes to its end, no
\* read in it goes through a null pointer, and the tree made has a sentinel of
\* its own, the size and the payloads in in-order of x, and its maximum node
\* as its sentinel's parent.
C36_CopyConstruct ==
    last.op = "copy_construct" =>
       /\ last.valid
       /\ last.second
       /\ CopyOf(old)

\* ------------------------------------------------------------------------
\* The sentinel, write by write.

\* The trees s, then the tree the write F makes of the last of them.
Run(s, F(_)) == Append(s, F(s[Len(s)]))

\* rotate_left(node) in the last tree of s: the tree after each of its writes.
rotate_left_writes(s, node) ==
    With(s[Len(s)].rightChild[node], LAMBDA child :
    With(s[Len(s)].parent[node], LAMBDA par :
    With(IF s[Len(s)].value[s[Len(s)].leftChild[child]] # NoValue
         THEN Run(s, LAMBDA u : SetParent(u, u.leftChild[child], node))
         ELSE s, LAMBDA s1 :
    With(Run(s1, LAMBDA u : SetRight(u, node, u.leftChild[child])), LAMBDA s2 :
    With(Run(s2, LAMBDA u : SetParent(u, node, child)), LAMBDA s3 :
    With(Run(s3, LAMBDA u : SetLeft(u, child, node)), LAMBDA s4 :
    With(Run(s4, LAMBDA u : SetParent(u, child, par)), LAMBDA s5 :
    Run(s5, LAMBDA u : IF u.value[par] # NoValue
                       THEN IF u.leftChild[par] = node
                            THEN SetLeft(u, par, child)
                            ELSE SetRight(u, par, child)
                       ELSE SetRoot(u, child)))))))))

\* rotate_right(node) in the last tree of s: the tree after each of its writes.
rotate_right_writes(s, node) ==
    With(s[Len(s)].leftChild[node], LAMBDA child :
    With(s[Len(s)].parent[node], LAMBDA par :
    With(IF s[Len(s)].value[s[Len(s)].rightChild[child]] # NoValue
         THEN Run(s, LAMBDA u : SetParent(u, u.rightChild[child], node))
         ELSE s, LAMBDA s1 :
    With(Run(s1, LAMBDA u : SetLeft(u, node, u.rightChild[child])), LAMBDA s2 :
    With(Run(s2, LAMBDA u : SetParent(u, node, child)), LAMBDA s3 :
    With(Run(s3, LAMBDA u : SetRight(u, child, node)), LAMBDA s4 :
    With(Run(s4, LAMBDA u : SetParent(u, child, par)), LAMBDA s5 :
    Run(s5, LAMBDA u : IF u.value[par] # NoValue
                       THEN IF u.rightChild[par] = node
                            THEN SetRight(u, par, child)
                            ELSE SetLeft(u, par, child)
                       ELSE SetRoot(u, child)))))))))

RECURSIVE insert_case1_writes(_, _)

insert_case5_writes(s, node) ==
    With(get_grandparent(s[Len(s)], node), LAMBDA grand :
    With(Run(s, LAMBDA u : SetColor(u, u.parent[node], BLACK)), LAMBDA s1 :
    With(Run(s1, LAMBDA u : SetColor(u, grand, RED)), LAMBDA s2 :
    IF node = s2[Len(s2)].leftChild[s2[Len(s2)].parent[node]]
    THEN rotate_right_writes(s2, grand)
    ELSE rotate_left_writes(s2, grand))))

insert_case4_writes(s, node) ==
    With(s[Len(s)], LAMBDA t :
    With(get_grandparent(t, node), LAMBDA grand :
    IF node = t.rightChild[t.parent[node]] /\ t.parent[node] = t.leftChild[grand]
    THEN With(rotate_left_writes(s, t.parent[node]), LAMBDA s1 :
         insert_case5_writes(s1, s1[Len(s1)].leftChild[node]))
    ELSE IF node = t.leftChild[t.parent[node]] /\ t.parent[node] = t.rightChild[grand]
    THEN With(rotate_right_writes(s, t.parent[node]), LAMBDA s1 :
         insert_case5_writes(s1, s1[Len(s1)].rightChild[node]))
    ELSE insert_case5_writes(s, node)))

insert_case3_writes(s, node) ==
    With(get_uncle(s[Len(s)], node), LAMBDA uncle :
    IF s[Len(s)].value[uncle] # NoValue /\ s[Len(s)].color[uncle] = RED
    THEN With(Run(s, LAMBDA u : SetColor(u, u.parent[node], BLACK)), LAMBDA s1 :
         With(Run(s1, LAMBDA u : SetColor(u, uncle, BLACK)), LAMBDA s2 :
         With(get_grandparent(s2[Len(s2)], node), LAMBDA grand :
         With(Run(s2, LAMBDA u : SetColor(u, grand, RED)), LAMBDA s3 :
         insert_case1_writes(s3, grand)))))
    ELSE insert_case4_writes(s, node))

insert_case2_writes(s, node) ==
    IF s[Len(s)].color[s[Len(s)].parent[node]] = RED
    THEN insert_case3_writes(s, node)
    ELSE s

\* insert_case1(node) in the last tree of s: the tree after each write of the
\* fix-up.
insert_case1_writes(s, node) ==
    IF s[Len(s)].value[s[Len(s)].parent[node]] # NoValue
    THEN insert_case2_writes(s, node)
    ELSE Run(s, LAMBDA u : SetColor(u, node, BLACK))

\* insert(val) in t, val a key t does not hold, t not empty: t, the tree with
\* the node linked in, the tree after each write of the fix-up, and the tree
\* insert leaves.
insert_writes(t, val) ==
    With(insert_linked(t, val), LAMBDA l :
    With(insert_case1_writes(<<t, l.t>>, l.node), LAMBDA s :
    [trees |-> Append(s, insert(t, val, NullPtr).t),
     agrees |-> s[Len(s)] = insert_case1(l.t, l.node)]))

RECURSIVE delete_case1_writes(_, _, _)

delete_case6_writes(s, node) ==
    With(get_sibling(s[Len(s)], node), LAMBDA sibling :
    With(Run(s, LAMBDA u : SetColor(u, sibling, u.color[u.parent[node]])), LAMBDA s1 :
    With(Run(s1, LAMBDA u : SetColor(u, u.parent[node], BLACK)), LAMBDA s2 :
    IF node = s2[Len(s2)].leftChild[s2[Len(s2)].parent[node]]
    THEN With(Run(s2, LAMBDA u : SetColor(u, u.rightChild[sibling], BLACK)), LAMBDA s3 :
         rotate_left_writes(s3, s3[Len(s3)].parent[node]))
    ELSE With(Run(s2, LAMBDA u : SetColor(u, u.leftChild[sibling], BLACK)), LAMBDA s3 :
         rotate_right_writes(s3, s3[Len(s3)].parent[node])))))

delete_case5_writes(s, node) ==
    With(s[Len(s)], LAMBDA t :
    With(get_sibling(t, node), LAMBDA sibling :
    IF t.color[sibling] = BLACK
    THEN IF /\ node = t.leftChild[t.parent[node]]
            /\ t.color[t.rightChild[sibling]] = BLACK
            /\ t.color[t.leftChild[sibling]] = RED
         THEN With(Run(s, LAMBDA u : SetColor(u, sibling, RED)), LAMBDA s1 :
              With(Run(s1, LAMBDA u : SetColor(u, u.leftChild[sibling], BLACK)), LAMBDA s2 :
              delete_case6_writes(rotate_right_writes(s2, sibling), node)))
         ELSE IF /\ node = t.rightChild[t.parent[node]]
                 /\ t.color[t.leftChild[sibling]] = BLACK
                 /\ t.color[t.rightChild[sibling]] = RED
         THEN With(Run(s, LAMBDA u : SetColor(u, sibling, RED)), LAMBDA s1 :
              With(Run(s1, LAMBDA u : SetColor(u, u.rightChild[sibling], BLACK)), LAMBDA s2 :
              delete_case6_writes(rotate_left_writes(s2, sibling), node)))
         ELSE delete_case6_writes(s, node)
    ELSE delete_case6_writes(s, node)))

delete_case4_writes(s, node) ==
    With(get_sibling(s[Len(s)], node), LAMBDA sibling :
    IF AllBlackBelow(s[Len(s)], node, RED)
    THEN With(Run(s, LAMBDA u : SetColor(u, sibling, RED)), LAMBDA s1 :
         Run(s1, LAMBDA u : SetColor(u, u.parent[node], BLACK)))
    ELSE delete_case5_writes(s, node))

delete_case3_writes(s, node, k) ==
    With(get_sibling(s[Len(s)], node), LAMBDA sibling :
    IF AllBlackBelow(s[Len(s)], node, BLACK)
    THEN With(Run(s, LAMBDA u : SetColor(u, sibling, RED)), LAMBDA s1 :
         delete_case1_writes(s1, s1[Len(s1)].parent[node], k - 1))
    ELSE delete_case4_writes(s, node))

delete_case2_writes(s, node, k) ==
    With(get_sibling(s[Len(s)], node), LAMBDA sibling :
    IF s[Len(s)].color[sibling] = RED
    THEN With(Run(s, LAMBDA u : SetColor(u, u.parent[node], RED)), LAMBDA s1 :
         With(Run(s1, LAMBDA u : SetColor(u, sibling, BLACK)), LAMBDA s2 :
         With(IF node = s2[Len(s2)].leftChild[s2[Len(s2)].parent[node]]
              THEN rotate_left_writes(s2, s2[Len(s2)].parent[node])
              ELSE rotate_right_writes(s2, s2[Len(s2)].parent[node]), LAMBDA s3 :
         delete_case3_writes(s3, node, k))))
    ELSE delete_case3_writes(s, node, k))

\* delete_case1(node) in the last tree of s: the tree after each write of the
\* fix-up (followed for k calls).
delete_case1_writes(s, node, k) ==
    IF k > 0 /\ s[Len(s)].value[s[Len(s)].parent[node]] # NoValue
    THEN delete_case2_writes(s, node, k)
    ELSE s

\* erase(node) in t, node a node of t: t, the tree after replace_erase_node,
\* the tree after replace_node, the tree after each write of the rebalancing
\* step, and the tree erase leaves.
erase_writes(t, node) ==
    With(erase_unlinked(t, node), LAMBDA u :
    With(<<t, replace_erase_node(t, node), u.t>>, LAMBDA s0 :
    With(IF u.t.color[node] = BLACK
         THEN IF u.t.color[u.child] = RED
              THEN Run(s0, LAMBDA v : SetColor(v, u.child, BLACK))
              ELSE delete_case1_writes(s0, u.child, Fuel)
         ELSE s0, LAMBDA s :
    [trees |-> Append(s, erase(t, node).t),
     fixup |-> Len(s) - Len(s0),
     agrees |-> s[Len(s)] = erase_rebalance(u.t, node, u.child)])))

\* The sentinel of t is BLACK, has no payload and is its own left and right
\* child.
SentinelKept(t) ==
    /\ t.nil \in t.live
    /\ t.color[t.nil] = BLACK
    /\ t.value[t.nil] = NoValue
    /\ t.leftChild[t.nil] = t.nil
    /\ t.rightChild[t.nil] = t.nil

\* In every tree of s the sentinel is the one of the first and is kept.
SentinelKeptIn(s) ==
    \A i \in 1..Len(s) : s[i].nil = s[1].nil /\ SentinelKept(s[i])

\* C37: after every insert, erase, clear, copy and swap each of the two trees
\* has one sentinel, its own: it is BLACK, has no payload and is its own left
\* and right child, every absent child in the tree is that sentinel, and no
\* other allocated node is without a payload; and after every write of the
\* fix-up of an insert or an erase in the tree the sentinel is still so.  The
\* writes are followed for the last insert or erase, in the tree before it.
C37_Sentinel ==
    /\ SentinelKept(Tree) /\ SentinelKept(OtherTree)
    /\ nil # other.nil
    /\ {n \in live : value[n] = NoValue} = {nil, other.nil}
    /\ LinksAgree(Tree) /\ LinksAgree(OtherTree)
    /\ (last.op = "insert" /\ last.second /\ old.size > 0) =>
          \E w \in {insert_writes(old, last.val)} :
             /\ w.agrees
             /\ w.trees[Len(w.trees)] = Tree
             /\ SentinelKeptIn(w.trees)
    /\ Erased =>
          \E w \in {erase_writes(old, last.node)} :
             /\ w.agrees
             /\ w.trees[Len(w.trees)] = Tree
             /\ SentinelKeptIn(w.trees)

\* The last call was an erase that put the sentinel in the place of a BLACK
\* node and rotated in the fix-up with the sentinel as the node it started
\* from, while the other tree held elements.
C37_Witness ==
    /\ Erased
    /\ other.size > 0
    /\ \E u \in {erase_unlinked(old, last.node)} :
          u.called /\ u.child = old.nil
    /\ erase_writes(old, last.node).fixup >= 8

\* ------------------------------------------------------------------------
\* reverse_iterator over a random-access iterator.

\* The base iterator is a pointer T* into an array of MaxLen elements
\* (iterator_traits<T*>): the offsets 0..MaxLen, MaxLen one past the end.
Pointers == 0..MaxLen

\* The element a pointer is at.
Deref(it) == it + 1

\* explicit reverse_iterator(iterator_type it) : current(it)
reverse_iterator(it) == [current |-> it]

base(r) == r.current

\* reverse_iterator::operator+(n): reverse_iterator(current - n)
reverse_plus(r, n) == reverse_iterator(base(r) - n)

\* reverse_iterator::operator*(): tmp = current; --tmp; *tmp
reverse_star(r) == Deref(base(r) - 1)

\* reverse_iterator::operator[](n): current[-n - 1]
reverse_at(r, n) == Deref(base(r) + (-n - 1))

\* The value of a function that returns reverse_iterator<Iterator>, from an
\* operand of type Iterator: the only constructor that takes an Iterator is
\* explicit, so there is no conversion for the return statement and the
\* function is ill-formed where it is instantiated (made: it can be compiled);
\* it: the iterator the conversion would make were the constructor not
\* explicit.
returned_reverse(it) == [made |-> FALSE, it |-> reverse_iterator(it)]

\* operator+(n, it), the non-member: return (it.base() + n)
plus_reverse(n, it) == returned_reverse(base(it) + n)

\* reverse_iterator<T*> r(it)
Take(it) ==
    /\ rit' = [op |-> "make", r |-> reverse_iterator(it)]
    /\ UNCHANGED <<root, nil, size, leftChild, rightChild, parent, color, value,
                   live, other, mapped, last, old, oldOther, oldMapped>>

\* r + n and n + r, for an n that keeps r + n within the array
Plus(n) ==
    /\ rit.op # "none"
    /\ base(rit.r) - n \in Pointers
    /\ rit' = [op |-> "plus", r |-> rit.r, n |-> n,
               member |-> reverse_plus(rit.r, n),
               nonmember |-> plus_reverse(n, rit.r)]
    /\ UNCHANGED <<root, nil, size, leftChild, rightChild, parent, color, value,
                   live, other, mapped, last, old, oldOther, oldMapped>>

\* r[n] and *(r + n), for an n that has r + n at an element
At(n) ==
    /\ rit.op # "none"
    /\ base(rit.r) - n - 1 \in Pointers \ {MaxLen}
    /\ rit' = [op |-> "at", r |-> rit.r, n |-> n,
               member |-> reverse_plus(rit.r, n),
               at |-> reverse_at(rit.r, n),
               star |-> reverse_star(reverse_plus(rit.r, n))]
    /\ UNCHANGED <<root, nil, size, leftChild, rightChild, parent, color, value,
                   live, other, mapped, last, old, oldOther, oldMapped>>

NextReverse ==
    \/ \E it \in Pointers : Take(it)
    \/ \E n \in (-MaxLen)..MaxLen : Plus(n)
    \/ \E n \in (-MaxLen)..MaxLen : At(n)

SpecReverse == Init /\ [][NextReverse]_vars

\* C38: n + r is the reverse iterator r + n is, the one whose base is
\* r.base() - n; and r[n] is *(r + n).
C38_PlusSides ==
    /\ rit.op = "plus" =>
          /\ rit.nonmember.made
          /\ rit.nonmember.it = rit.member
          /\ base(rit.member) = base(rit.r) - rit.n
    /\ rit.op = "at" => rit.at = rit.star

====
